---- MODULE Spec2Model ----
(***************************************************************************)
(* The BEF to MLIR converter of bef_to_mlir.cc (src/unnamed/part_001) as a *)
(* state machine.  ConvertBEFToMLIR runs its phases in order; the contents *)
(* of the BEF file are revealed to the model when the converter reads them *)
(* (each action draws what it reads from a bounded set).                   *)
(*                                                                         *)
(* Numbering: the code numbers functions, registers and kernel table      *)
(* entries from 0, sequences here start at 1.  Function f of the model is  *)
(* function index f-1 of the code, register r is register index r-1, and   *)
(* register Len(register_table)+1 is the code's out-of-range index         *)
(* register_table_.size().  A region pointer is 0 (nullptr) or the number  *)
(* of the function whose body it holds.                                    *)
(***************************************************************************)
EXTENDS Integers, Sequences, FiniteSets, TLC

\* BEFSectionID (bef_encoding.h): the number of section ids, and the ids of
\* the three optional sections.
kNumSectionIDs == 12
kAttributeTypes == 9
kAttributeNames == 10
kRegisterTypes == 11

\* Bounds of the explored BEF files.
MaxFuncs == 3
MaxRegs == 2
MaxKernels == 2
MaxFnArgs == 1
MaxFnResults == 1
MaxFields == 2
\* A file holds at most MaxItems items: functions, arguments and results of
\* functions, registers, kernels, and the register and function indices of
\* the kernel entries.
MaxItems == 6

VARIABLES
    ndebug,             \* TRUE: built with NDEBUG, assert() compiled out
    pc,                 \* the statement of ConvertBEFToMLIR that runs next
    status,             \* "running", "module" (module returned), "null" (nullptr
                        \* returned), "abort" (assert or uncaught throw), "crash"
    diags,              \* messages given to EmitError / EmitWarning, in order
    executed,           \* the phases started so far, each with its result
    function_index,     \* bef_file_.function_index
    regions,            \* function_context.regions (the unique_ptr of each pair)
    bodies,             \* the block of the region decoded for each function
    region_references,  \* function_context.region_references
    visited,            \* entries of region_references the pass-2 loop has done
    module,             \* the functions pushed to the module, in order
    moves,              \* every takeBody call of pass 2: (op, slot, function, source)
    register_table,     \* BEFFunctionReader::register_table_
    beyond,             \* the memory right after register_table_'s last element
    num_kernels,        \* kernel_table_.size()
    ki,                 \* the kernel table entry ReadKernels reads next
    result_regs,        \* BEFFunctionReader::result_regs_
    block,              \* the block of the function being decoded
    kernel,             \* the kernel entry read last (BEFKernel)
    oob,                \* register_table_ was indexed outside its bounds
    items,              \* the items of the file read so far
    sections,           \* BEFSections::sections_: the payload kept for each id
    section,            \* the section ReadNextSection read last
    nread,              \* the sections read so far
    attribute_types,    \* the AttributeTypes section as ReadAttributes read it
    attributes,         \* bef_file_.attributes
    attr_refs,          \* the attribute entries of the kernel read last
    op_attributes,      \* state.attributes of the operation of that kernel
    strings,            \* bef_file_.strings
    types,              \* bef_file_.types
    kernels,            \* bef_file_.kernels
    signatures,         \* name, argument_types and result_types of each
                        \* entry of bef_file_.function_index
    register_info,      \* type and num_uses of each entry of register_table_
    reg_type_indices,   \* the vector reg_type_indices of ReadRegisterTable
    attr_pool,          \* BEFAttributeReader::attributes_, the bytes of the
                        \* Attributes section
    attr_offset,        \* the offset of the attribute that is read
    length_read,        \* what ReadLength returned
    string_attr,        \* what ReadStringAttribute returned
    async_value_or_attrs, \* KernelFrame::async_value_or_attrs_
    num_arguments,      \* KernelFrame::num_arguments_
    num_results,        \* KernelFrame::num_results_
    attribute_section,  \* KernelFrame::attribute_section_
    attrs_added,        \* the AddAttribute calls since construction or Reset
    violated,           \* a call since construction or Reset broke an assert
    last_call,          \* the member function of the builder called last
    resets,             \* the Reset calls so far
    frame_status,       \* "ok", "abort" once an assert fired, "crash"
    refcounts,          \* the reference count of each AsyncValue
    raii_frames,        \* the RAIIKernelFrame objects constructed so far
    sync_log_results,   \* LoggingOpHandler::sync_log_results_
    log_counter,        \* LoggingOpHandler::log_counter_, as <<high, low>> halves
    mu,                 \* LoggingOpHandler::mu_: 0, or the thread that holds it
    metadata_ostream,   \* what was written to *metadata_ostream_, in order
    log_threads,        \* where each thread is in the closure of MakeOp
    ids,                \* the values of id_number, in the order of the fetch_adds
    served,             \* the invocations before the ones in ids
    register_types,     \* the arrays of the RegisterTypes section, in order
    register_types_reader, \* the arrays register_types_reader has passed
    function_reg_types, \* (function, the reg_type_indices ReadFunction got)
    entry,              \* the header of the kernel entry read last
    entry_fields,       \* the ranges of its body taken for each field, in order
    entry_offset,       \* entry_offset once that kernel entry is read
    offset_arrays       \* the elements of each offset-array in bef_file_.attributes

vars == <<ndebug, pc, status, diags, executed, function_index, regions, bodies,
          region_references, visited, module, moves, register_table, beyond,
          num_kernels, ki, result_regs, block, kernel, oob, items,
          sections, section, nread, attribute_types, attributes, attr_refs,
          op_attributes, strings, types, kernels, signatures, register_info,
          reg_type_indices, attr_pool, attr_offset, length_read, string_attr,
          async_value_or_attrs, num_arguments, num_results, attribute_section,
          attrs_added, violated, last_call, resets, frame_status,
          refcounts, raii_frames, sync_log_results, log_counter, mu,
          metadata_ostream, log_threads, ids, served,
          register_types, register_types_reader, function_reg_types, entry,
          entry_fields, entry_offset, offset_arrays>>

fnvars == <<register_table, beyond, num_kernels, ki, result_regs, block, kernel, oob>>
stitchvars == <<regions, bodies, region_references, visited, module, moves>>
\* What the detailed specifications of single phases read and write.
secvars == <<sections, section, nread>>
attrvars == <<attribute_types, attributes, attr_refs, op_attributes>>
handlevars == <<strings, types, kernels, signatures>>
regvars == <<register_info, reg_type_indices>>
bytevars == <<attr_pool, attr_offset, length_read, string_attr>>
\* What the specifications of the host runtime (kernel frames, the logging op
\* handler) read and write.
hostvars == <<async_value_or_attrs, num_arguments, num_results,
              attribute_section, attrs_added, violated, last_call, resets,
              frame_status, refcounts, raii_frames, sync_log_results,
              log_counter, mu, metadata_ostream, log_threads, ids, served>>
\* What the specifications of the streams ReadFunctions hands to every
\* function, of the body of a kernel entry and of the offset-arrays read and
\* write.
streamvars == <<register_types, register_types_reader, function_reg_types,
                entry, entry_fields, entry_offset, offset_arrays>>
morevars == <<handlevars, regvars, bytevars, hostvars, streamvars>>
detail == <<secvars, attrvars, morevars>>

----------------------------------------------------------------------------
\* mlir::Value: nullptr, a block argument, a result of the operation at a
\* position of the block, or whatever uninitialised memory holds.
Null == <<"null", 0, 0>>
Junk == <<"junk", 0, 0>>
\* The memory after the register table before the converter has read it.
Unread == <<"unread", 0, 0>>
Arg(i) == <<"arg", i, 0>>
Res(p, j) == <<"res", p, j>>

NoKernel == [hdr |-> "none", args |-> <<>>, funcs |-> <<>>, results |-> <<>>]

SeqsUpTo(S, n) == UNION {[1..k -> S] : k \in 0..n}

Last(s) == s[Len(s)]

\* The phases of ConvertBEFToMLIR in the order of its statements.
PhaseOrder == <<"ReadHeader", "ReadSections", "ReadFormatVersion",
                "ReadLocationFilenames", "ReadLocationPositions", "ReadStrings",
                "ReadTypes", "ReadAttributes", "ReadKernels", "ReadFunctionIndex",
                "ReadFunctions", "ResolveFunctions">>

\* The last phase started ends with result r.
Ends(r) == [executed EXCEPT ![Len(executed)].result = r]
\* The last phase started ends well and phase p starts.
Starts(p) == Append(Ends("ok"), [phase |-> p, result |-> "running"])

\* BEFSections(): every payload is an empty ArrayRef.
NoSections == [id \in 0..(kNumSectionIDs - 1) |-> "empty"]
NoSection == [id |-> 0, data |-> "empty", ok |-> TRUE]

\* The offsets into the Attributes section explored.
MaxAttrOffset == 2
AttrOffsets == 1..MaxAttrOffset

\* BEFFile(): bef_file_.attributes is an empty map.
NoAttributes == [o \in AttrOffsets |-> "absent"]
NoAttributeTypes == [count_ok |-> TRUE, num |-> 0, recs |-> <<>>]

\* BEFFile(): no strings, types, kernels and functions.
HandlesIdle ==
    /\ strings = <<>>
    /\ types = <<>>
    /\ kernels = <<>>
    /\ signatures = <<>>

\* No attribute is being read.
NoLength == [st |-> "none", value |-> 0, outside |-> FALSE]
NoString == [st |-> "none", length |-> 0, str |-> <<>>, outside |-> FALSE]

BytesIdle ==
    /\ attr_pool = <<>>
    /\ attr_offset = 0
    /\ length_read = NoLength
    /\ string_attr = NoString

\* A KernelFrameBuilder as its constructor leaves it: the default member
\* initialisers of KernelFrame and no attribute section.
FreshFrame ==
    /\ async_value_or_attrs = <<>>
    /\ num_arguments = 0
    /\ num_results = -1
    /\ attribute_section = 0
    /\ attrs_added = 0
    /\ violated = FALSE
    /\ last_call = "KernelFrameBuilder"
    /\ resets = 0
    /\ frame_status = "ok"

\* Nothing of the host runtime is in use: a fresh builder, no AsyncValue, no
\* RAIIKernelFrame, a LoggingOpHandler no thread has called.
HostIdle ==
    /\ FreshFrame
    /\ refcounts = <<>>
    /\ raii_frames = <<>>
    /\ sync_log_results = FALSE
    /\ log_counter = <<0, 0>>
    /\ mu = 0
    /\ metadata_ostream = <<>>
    /\ log_threads = <<>>
    /\ ids = <<>>
    /\ served = <<0, 0>>

\* No RegisterTypes array was handed out, no kernel entry was taken apart and
\* no offset-array is in bef_file_.attributes.
StreamsIdle ==
    /\ register_types = <<>>
    /\ register_types_reader = 0
    /\ function_reg_types = {}
    /\ entry = [pseudo |-> FALSE, num_arguments |-> 0, num_attributes |-> 0,
                num_functions |-> 0, used_bys |-> <<>>, complete |-> FALSE]
    /\ entry_fields = <<>>
    /\ entry_offset = 0
    /\ offset_arrays = [o \in AttrOffsets |-> <<>>]

\* The tables the detailed specifications fill are empty.
TablesIdle ==
    /\ attribute_types = NoAttributeTypes
    /\ attributes = NoAttributes
    /\ attr_refs = <<>>
    /\ op_attributes = <<>>
    /\ HandlesIdle
    /\ register_info = <<>>
    /\ reg_type_indices = <<>>
    /\ BytesIdle

\* The detailed specifications have not run.
DetailIdle ==
    /\ sections = NoSections
    /\ section = NoSection
    /\ nread = 0
    /\ TablesIdle
    /\ HostIdle
    /\ StreamsIdle

\* The state of the converter before phase p, when the phases before it
\* have succeeded.
RECURSIVE Before(_, _)
Before(p, k) ==
    IF PhaseOrder[k] = p THEN <<[phase |-> p, result |-> "running"]>>
    ELSE <<[phase |-> PhaseOrder[k], result |-> "ok"]>> \o Before(p, k + 1)

\* ConvertBEFToMLIR is about to run phase p.
AtPhase(p) ==
    /\ ndebug \in BOOLEAN
    /\ pc = p
    /\ status = "running"
    /\ diags = <<>>
    /\ executed = Before(p, 1)
    /\ function_index = <<>>
    /\ regions = <<>>
    /\ bodies = <<>>
    /\ region_references = {}
    /\ visited = {}
    /\ module = <<>>
    /\ moves = <<>>
    /\ register_table = <<>>
    /\ beyond = Unread
    /\ num_kernels = 0
    /\ ki = 1
    /\ result_regs = <<>>
    /\ block = <<>>
    /\ kernel = NoKernel
    /\ oob = FALSE
    /\ items = 0

Init == DetailIdle /\ AtPhase("ReadHeader")

----------------------------------------------------------------------------
\* A faulty converter that goes on to the next phase after a failed one;
\* C10 does not hold of it.
FatalPhaseContinues(p, ok, next, msg) ==
    /\ pc = p
    /\ status = "running"
    /\ pc' = next
    /\ executed' = Append(Ends(IF ok THEN "ok" ELSE "fail"),
                          [phase |-> next, result |-> "running"])
    /\ diags' = IF ok THEN diags ELSE Append(diags, msg)
    /\ UNCHANGED status

\* ConvertBEFToMLIR, phase 1: one statement `if (failed(converter.X(...)))
\* return emit_error(msg);`.  ok is what X returns on the bytes it is given.
FatalPhase(p, ok, next, msg) ==
    /\ pc = p
    /\ status = "running"
    /\ IF ok
         THEN /\ pc' = next
              /\ executed' = Starts(next)
              /\ UNCHANGED <<status, diags>>
         ELSE /\ status' = "null"
              /\ diags' = Append(diags, msg)
              /\ executed' = Ends("fail")
              /\ pc' = "done"

ReadHeader ==
    /\ \E magic1, magic2 \in BOOLEAN :
         FatalPhase("ReadHeader", magic1 /\ magic2, "ReadSections",
                    "Invalid BEF file header.")
    /\ UNCHANGED <<ndebug, detail, function_index, stitchvars, fnvars, items>>

ReadSections ==
    /\ \E ok \in BOOLEAN :
         FatalPhase("ReadSections", ok, "ReadFormatVersion",
                    "Invalid BEF section header.")
    /\ UNCHANGED <<ndebug, detail, function_index, stitchvars, fnvars, items>>

ReadFormatVersion ==
    /\ \E ok \in BOOLEAN :
         FatalPhase("ReadFormatVersion", ok, "ReadLocationFilenames",
                    "Invalid BEF version.")
    /\ UNCHANGED <<ndebug, detail, function_index, stitchvars, fnvars, items>>

ReadLocationFilenames ==
    /\ \E ok \in BOOLEAN :
         FatalPhase("ReadLocationFilenames", ok, "ReadLocationPositions",
                    "Invalid LocationFilenames section.")
    /\ UNCHANGED <<ndebug, detail, function_index, stitchvars, fnvars, items>>

ReadLocationPositions ==
    /\ \E ok \in BOOLEAN :
         FatalPhase("ReadLocationPositions", ok, "ReadStrings",
                    "Invalid LocationPositions section.")
    /\ UNCHANGED <<ndebug, detail, function_index, stitchvars, fnvars, items>>

ReadStrings ==
    /\ \E ok \in BOOLEAN :
         FatalPhase("ReadStrings", ok, "ReadTypes", "Invalid Strings section.")
    /\ UNCHANGED <<ndebug, detail, function_index, stitchvars, fnvars, items>>

ReadTypes ==
    /\ \E ok \in BOOLEAN :
         FatalPhase("ReadTypes", ok, "ReadAttributes", "Invalid Types section.")
    /\ UNCHANGED <<ndebug, detail, function_index, stitchvars, fnvars, items>>

\* A faulty converter that returns nullptr when ReadAttributes fails; C14
\* does not hold of it.
WarnPhaseFatal(p, ok, next, msg) ==
    /\ pc = p
    /\ status = "running"
    /\ IF ok
         THEN /\ pc' = next
              /\ executed' = Starts(next)
              /\ UNCHANGED <<status, diags>>
         ELSE /\ status' = "null"
              /\ diags' = Append(diags, msg)
              /\ executed' = Ends("fail")
              /\ pc' = "done"

\* A failed ReadAttributes only warns: the statement has no return.
WarnPhase(p, ok, next, msg) ==
    /\ pc = p
    /\ status = "running"
    /\ pc' = next
    /\ executed' = Append(Ends(IF ok THEN "ok" ELSE "fail"),
                          [phase |-> next, result |-> "running"])
    /\ diags' = IF ok THEN diags ELSE Append(diags, msg)
    /\ UNCHANGED status

ReadAttributes ==
    /\ \E ok \in BOOLEAN :
         WarnPhase("ReadAttributes", ok, "ReadKernels",
                   "Invalid Attributes/AttributeTypes section.")
    /\ UNCHANGED <<ndebug, detail, function_index, stitchvars, fnvars, items>>

ReadKernels ==
    /\ \E ok \in BOOLEAN :
         FatalPhase("ReadKernels", ok, "ReadFunctionIndex", "Invalid Kernels section.")
    /\ UNCHANGED <<ndebug, detail, function_index, stitchvars, fnvars, items>>

\* An entry of the function index (the entries read before a failure stay
\* in function_index): IsNamedFunction(), IsNativeFunction() and
\* the sizes of argument_types and result_types.
FunctionEntries ==
    [named : BOOLEAN, native : {FALSE}, nargs : 0..MaxFnArgs, nres : 0..MaxFnResults]
    \cup [named : BOOLEAN, native : {TRUE}, nargs : {0}, nres : {0}]

RECURSIVE ItemsOf(_)
ItemsOf(fi) ==
    IF fi = <<>> THEN 0
    ELSE 1 + Last(fi).nargs + Last(fi).nres + ItemsOf(SubSeq(fi, 1, Len(fi) - 1))

\* The function indexes explored.
FunctionIndexes == {fi \in SeqsUpTo(FunctionEntries, MaxFuncs) : ItemsOf(fi) <= MaxItems}

\* ReadFunctionIndex on a FunctionIndex section that holds one of FIs.
ReadFunctionIndexOf(FIs) ==
    /\ pc = "ReadFunctionIndex"
    /\ \E ok \in BOOLEAN, fi \in FIs :
         /\ FatalPhase("ReadFunctionIndex", ok, "ReadFunctions",
                       "Invalid FunctionIndex section.")
         /\ function_index' = fi
         /\ items' = ItemsOf(fi)
    /\ UNCHANGED <<ndebug, detail, stitchvars, fnvars>>

ReadFunctionIndex == ReadFunctionIndexOf(FunctionIndexes)

----------------------------------------------------------------------------
\* BEFFunctionReader.  t is register_table_ and b the memory after it.

\* GetRegister(r).value.  An index past the table fails the assert of a
\* debug build; a release build reads the memory after the table.
RegisterValue(t, b, r) == IF r <= Len(t) THEN t[r].value ELSE b

OutOfRange(t, r) == r > Len(t)

\* A faulty argument resolution that takes the value of a register without
\* checking that there is one; C1 does not hold of it.
RECURSIVE ResolveArgumentsUnchecked(_, _, _, _, _)
ResolveArgumentsUnchecked(args, k, t, b, acc) ==
    IF k > Len(args) THEN [st |-> "ok", operands |-> acc, oob |-> FALSE]
    ELSE IF OutOfRange(t, args[k]) /\ ~ndebug
      THEN [st |-> "abort", operands |-> acc, oob |-> FALSE]
    ELSE LET rest == ResolveArgumentsUnchecked(args, k + 1, t, b,
                                               Append(acc, RegisterValue(t, b, args[k])))
         IN  [rest EXCEPT !.oob = @ \/ OutOfRange(t, args[k])]

\* ReadKernel, "Resolve arguments": the operands of the kernel entry, or the
\* first failure.  acc holds the operands resolved so far.
RECURSIVE ResolveArguments(_, _, _, _, _)
ResolveArguments(args, k, t, b, acc) ==
    IF k > Len(args) THEN [st |-> "ok", operands |-> acc, oob |-> FALSE]
    ELSE IF OutOfRange(t, args[k]) /\ ~ndebug
      THEN [st |-> "abort", operands |-> acc, oob |-> FALSE]
    ELSE IF RegisterValue(t, b, args[k]) = Null
      THEN [st |-> "null", operands |-> acc, oob |-> OutOfRange(t, args[k])]
    ELSE LET rest == ResolveArguments(args, k + 1, t, b,
                                      Append(acc, RegisterValue(t, b, args[k])))
         IN  [rest EXCEPT !.oob = @ \/ OutOfRange(t, args[k])]

\* ReadKernel, "Resolve function references": "unknown" when GetFunction
\* returns nullptr, else the callees recorded and the number of regions added.
IsFunction(f) == f <= Len(function_index)

ResolveFunctionRefs(funcs) ==
    IF \E k \in 1..Len(funcs) : ~IsFunction(funcs[k])
      THEN [st |-> "null", callees |-> <<>>, nregions |-> 0]
      ELSE [st |-> "ok",
            callees |-> SelectSeq(funcs, LAMBDA f : function_index[f].named),
            nregions |-> Len(SelectSeq(funcs, LAMBDA f : ~function_index[f].named))]

\* A faulty AddDefinition that overwrites the value of a defined register;
\* C2 does not hold of it.
AddDefinitionOverwrite(value, r, t, b) ==
    IF OutOfRange(t, r) /\ ~ndebug
      THEN [st |-> "abort", t |-> t, b |-> b, oob |-> FALSE]
    ELSE IF OutOfRange(t, r) THEN [st |-> "ok", t |-> t, b |-> value, oob |-> TRUE]
    ELSE [st |-> "ok", t |-> [t EXCEPT ![r].value = value], b |-> b, oob |-> FALSE]

\* AddDefinition(value, r); oob tells that the register was out of range.
AddDefinition(value, r, t, b) ==
    IF OutOfRange(t, r) /\ ~ndebug
      THEN [st |-> "abort", t |-> t, b |-> b, oob |-> FALSE]
    ELSE IF RegisterValue(t, b, r) # Null
      THEN [st |-> "null", t |-> t, b |-> b, oob |-> OutOfRange(t, r)]
    ELSE IF OutOfRange(t, r) THEN [st |-> "ok", t |-> t, b |-> value, oob |-> TRUE]
    ELSE [st |-> "ok", t |-> [t EXCEPT ![r].value = value], b |-> b, oob |-> FALSE]

\* ReadKernel, "Add definitions": result i of the operation at position pos
\* defines register results[i], in order, until one definition fails.
RECURSIVE AddDefinitions(_, _, _, _, _)
AddDefinitions(results, i, pos, t, b) ==
    IF i > Len(results) THEN [st |-> "ok", t |-> t, b |-> b, oob |-> FALSE]
    ELSE LET d == AddDefinition(Res(pos, i), results[i], t, b)
         IN  IF d.st = "ok"
               THEN [AddDefinitions(results, i + 1, pos, d.t, d.b)
                       EXCEPT !.oob = @ \/ d.oob]
               ELSE d

\* ReadArgumentsPseudoKernel: block argument i defines register results[i].
RECURSIVE AddArgumentDefinitions(_, _, _, _)
AddArgumentDefinitions(results, i, t, b) ==
    IF i > Len(results) THEN [st |-> "ok", t |-> t, b |-> b, oob |-> FALSE]
    ELSE LET d == AddDefinition(Arg(i), results[i], t, b)
         IN  IF d.st = "ok"
               THEN [AddArgumentDefinitions(results, i + 1, d.t, d.b)
                       EXCEPT !.oob = @ \/ d.oob]
               ELSE d

Operation(operands, nresults, callees, nregions) ==
    [name |-> "kernel", operands |-> operands, nresults |-> nresults,
     callees |-> callees, regions |-> [i \in 1..nregions |-> 0]]

\* ReadKernel on kernel entry k, to become the operation at position pos:
\* st is "ok" (the operation is returned), "null" (nullptr is returned after
\* msg was emitted) or "abort"; ref tells whether region_references_ got an
\* entry for the operation.
ReadKernelResult(k, pos, t, b) ==
    LET a == ResolveArguments(k.args, 1, t, b, <<>>)
        f == ResolveFunctionRefs(k.funcs)
        typesOob == \E i \in 1..Len(k.results) : OutOfRange(t, k.results[i])
        d == AddDefinitions(k.results, 1, pos, t, b)
        op == Operation(a.operands, Len(k.results), f.callees, f.nregions)
        none == [st |-> "abort", msg |-> "", t |-> t, b |-> b, op |-> op,
                 ref |-> FALSE, oob |-> FALSE]
    IN  IF k.hdr = "badcode" THEN none
        ELSE IF k.hdr = "badloc" /\ ~ndebug THEN none
        ELSE IF a.st = "abort" THEN none
        ELSE IF a.st = "null"
          THEN [none EXCEPT !.st = "null", !.msg = "Using undefined registers.",
                            !.oob = a.oob]
        ELSE IF f.st = "null"
          THEN [none EXCEPT !.st = "null", !.msg = "Unknown callee.", !.oob = a.oob]
        ELSE IF typesOob /\ ~ndebug THEN none
        ELSE IF d.st = "null"
          THEN [none EXCEPT !.st = "null", !.msg = "Redefinition of registers",
                            !.t = d.t, !.b = d.b, !.oob = a.oob \/ typesOob]
        ELSE IF f.nregions > 0 /\ f.nregions # Len(k.funcs) /\ ~ndebug THEN none
        ELSE [st |-> "ok", msg |-> "", t |-> d.t, b |-> d.b, op |-> op,
              ref |-> f.nregions > 0, oob |-> a.oob \/ typesOob]

\* The return nullptr / return failure chain from inside ReadKernels up to
\* ConvertBEFToMLIR.
FailFunctions(msgs) ==
    /\ status' = "null"
    /\ diags' = diags \o msgs \o <<"Invalid Functions section.">>
    /\ executed' = Ends("fail")
    /\ pc' = "done"

\* The process ends: a failed assert or an uncaught exception ("abort"), or a
\* null dereference ("crash").
Dies(how) ==
    /\ status' = how
    /\ executed' = Ends(how)
    /\ pc' = "done"
    /\ UNCHANGED diags

NextFunction == Len(regions) + 1

\* What the memory after the register table may hold when the converter reads
\* it: anything the first time, what was found or stored there afterwards.
Memory == IF beyond = Unread /\ ndebug THEN {Null, Junk} ELSE {beyond}

\* ReadFunctions, loop body for a native function.
ReadNativeFunction ==
    /\ pc = "ReadFunctions"
    /\ NextFunction <= Len(function_index)
    /\ function_index[NextFunction].native
    /\ regions' = Append(regions, 0)
    /\ bodies' = Append(bodies, <<>>)
    /\ UNCHANGED <<ndebug, detail, pc, status, diags, executed, function_index,
                   region_references, visited, module, moves, fnvars, items>>

ReadFunctionFailures ==
    {"Failed to read function location", "Failed to read register table.",
     "Failed to read kernel table.", "Failed to read result regs.",
     "Failed to read kernels."}

\* ReadFunctions, loop body for a BEF function, up to the call of ReadKernels:
\* ReadFunction reads the location, the register table, the kernel table and
\* the result registers and creates the block.
ReadFunction ==
    /\ pc = "ReadFunctions"
    /\ NextFunction <= Len(function_index)
    /\ ~function_index[NextFunction].native
    /\ \/ \E msg \in ReadFunctionFailures :
            /\ FailFunctions(<<msg>>)
            /\ UNCHANGED <<ndebug, detail, function_index, stitchvars, fnvars, items>>
       \/ LET start == IF function_index[NextFunction].nargs > 0 THEN 1 ELSE 0
          IN  \E nregs \in 0..MaxRegs, nk \in 0..MaxKernels :
              \E rr \in [1..function_index[NextFunction].nres -> 1..(nregs + 1)] :
                /\ items + nregs + nk <= MaxItems
                /\ items' = items + nregs + nk
                /\ register_table' = [r \in 1..nregs |-> [value |-> Null]]
                /\ num_kernels' = nk
                /\ result_regs' = rr
                /\ block' = <<>>
                /\ kernel' = NoKernel
                /\ ki' = start + 1
                /\ pc' = IF start = 1 THEN "ReadArgumentsPseudoKernel"
                                      ELSE "ReadKernel"
                /\ UNCHANGED <<ndebug, detail, status, diags, executed, function_index,
                               stitchvars, beyond, oob>>

\* ReadKernels, the arguments pseudo kernel (the entry at offset 0 of the
\* kernel stream): one result register per block argument.
ReadArgumentsPseudoKernel ==
    /\ pc = "ReadArgumentsPseudoKernel"
    /\ \E results \in [1..function_index[NextFunction].nargs
                         -> 1..(Len(register_table) + 1)], mem \in Memory :
         LET k == [hdr |-> "pseudo", args |-> <<>>, funcs |-> <<>>,
                   results |-> results]
             d == AddArgumentDefinitions(results, 1, register_table, mem)
         IN  /\ kernel' = k
             /\ CASE d.st = "abort" ->
                       /\ Dies("abort")
                       /\ UNCHANGED <<register_table, beyond, oob>>
                  [] d.st = "null" ->
                       /\ FailFunctions(<<"Redefinition of registers",
                                          "Failed to read pseudo.",
                                          "Failed to read kernels.">>)
                       /\ register_table' = d.t
                       /\ beyond' = IF d.oob THEN d.b ELSE beyond
                       /\ oob' = (oob \/ d.oob)
                  [] OTHER ->
                       /\ pc' = "ReadKernel"
                       /\ register_table' = d.t
                       /\ beyond' = IF d.oob THEN d.b ELSE beyond
                       /\ oob' = (oob \/ d.oob)
                       /\ UNCHANGED <<status, diags, executed>>
    /\ UNCHANGED <<ndebug, detail, function_index, stitchvars, num_kernels, ki,
                   result_regs, block, items>>

\* The kernel entries explored hold at most MaxFields register and function
\* indices; their header handles are good, or the kernel name handle or the
\* location handle is not.
FieldCounts ==
    {c \in (0..MaxFields) \X (0..MaxFields) \X (0..MaxFields) :
       /\ c[1] + c[2] + c[3] <= MaxFields
       /\ items + c[1] + c[2] + c[3] <= MaxItems}

KernelEntries ==
    UNION {[hdr : {"ok"},
            args : [1..c[1] -> 1..(Len(register_table) + 1)],
            funcs : [1..c[2] -> 1..(Len(function_index) + 1)],
            results : [1..c[3] -> 1..(Len(register_table) + 1)]] : c \in FieldCounts}
    \cup [hdr : {"badcode", "badloc"}, args : {<<>>}, funcs : {<<>>}, results : {<<>>}]

\* ReadKernels, one iteration of the loop over the kernel table: ReadKernel,
\* then block->push_back(op).
ReadKernel ==
    /\ pc = "ReadKernel"
    /\ ki <= num_kernels
    /\ \E k \in KernelEntries, mem \in Memory :
         LET pos == Len(block) + 1
             r == ReadKernelResult(k, pos, register_table, mem)
         IN  /\ kernel' = k
             /\ items' = items + Len(k.args) + Len(k.funcs) + Len(k.results)
             /\ CASE r.st = "abort" ->
                       /\ Dies("abort")
                       /\ UNCHANGED <<register_table, beyond, oob, block, ki,
                                      region_references>>
                  [] r.st = "null" ->
                       /\ FailFunctions(<<r.msg, "Failed to read kernels.">>)
                       /\ register_table' = r.t
                       /\ beyond' = IF r.oob THEN r.b ELSE beyond
                       /\ oob' = (oob \/ r.oob)
                       /\ UNCHANGED <<block, ki, region_references>>
                  [] OTHER ->
                       /\ register_table' = r.t
                       /\ beyond' = IF r.oob THEN r.b ELSE beyond
                       /\ oob' = (oob \/ r.oob)
                       /\ block' = Append(block, r.op)
                       /\ ki' = ki + 1
                       /\ region_references' =
                            IF r.ref
                              THEN region_references \cup
                                     {[fn |-> NextFunction, pos |-> pos, fns |-> k.funcs]}
                              ELSE region_references
                       /\ UNCHANGED <<pc, status, diags, executed>>
    /\ UNCHANGED <<ndebug, detail, function_index, regions, bodies, visited, module, moves,
                   num_kernels, result_regs>>

\* ReadKernels after the loop: the operands of the return operation.
ReturnOperands(rr, k, t, b, acc) == ResolveArguments(rr, k, t, b, acc)

ReturnOp(operands) ==
    [name |-> "hex.return", operands |-> operands, nresults |-> 0,
     callees |-> <<>>, regions |-> <<>>]

\* ReadKernels after the loop appends the return operation; ReadFunction
\* returns the region and ReadFunctions keeps it in function_context.
ReadReturn ==
    /\ pc = "ReadKernel"
    /\ ki > num_kernels
    /\ \E mem \in Memory :
       LET a == ReturnOperands(result_regs, 1, register_table, mem, <<>>)
       IN  CASE a.st = "abort" ->
                  /\ Dies("abort")
                  /\ UNCHANGED <<fnvars, regions, bodies>>
             [] a.st = "null" ->
                  /\ FailFunctions(<<"Using an undefined register in return op.",
                                     "Failed to read kernels.">>)
                  /\ oob' = (oob \/ a.oob)
                  /\ beyond' = IF a.oob THEN mem ELSE beyond
                  /\ UNCHANGED <<register_table, num_kernels, ki,
                                 result_regs, block, kernel, regions, bodies>>
             [] OTHER ->
                  /\ regions' = Append(regions, NextFunction)
                  /\ bodies' = Append(bodies, Append(block, ReturnOp(a.operands)))
                  /\ oob' = (oob \/ a.oob)
                  /\ pc' = "ReadFunctions"
                  /\ register_table' = <<>>
                  /\ beyond' = Unread
                  /\ num_kernels' = 0
                  /\ ki' = 1
                  /\ result_regs' = <<>>
                  /\ block' = <<>>
                  /\ kernel' = NoKernel
                  /\ UNCHANGED <<status, diags, executed>>
    /\ UNCHANGED <<ndebug, detail, function_index, region_references, visited, module, moves,
                   items>>

\* ReadFunctions returns success after the last function.
ReadFunctionsDone ==
    /\ pc = "ReadFunctions"
    /\ NextFunction > Len(function_index)
    /\ pc' = "ResolveFunctions"
    /\ executed' = Starts("ResolveFunctions")
    /\ UNCHANGED <<ndebug, detail, status, diags, function_index, stitchvars, fnvars, items>>

----------------------------------------------------------------------------
\* ResolveFunctions.

\* CreateNativeFuncOp: a function without body that carries hex.native.
CreateNativeFuncOp(f) == [fn |-> f, native |-> TRUE, body |-> 0]

\* CreateBEFFuncOp: the function takes the body of the region.
CreateBEFFuncOp(f, region) == [fn |-> f, native |-> FALSE, body |-> region]

\* A faulty pass 1 that puts each function in front of the module; C9 does
\* not hold of it.
RECURSIVE ResolveTopLevelReversed(_, _, _)
ResolveTopLevelReversed(f, m, rs) ==
    IF f > Len(function_index) THEN [st |-> "ok", module |-> m, regions |-> rs]
    ELSE IF ~function_index[f].named THEN ResolveTopLevelReversed(f + 1, m, rs)
    ELSE IF function_index[f].native
      THEN ResolveTopLevelReversed(f + 1, <<CreateNativeFuncOp(f)>> \o m, rs)
    ELSE IF rs[f] = 0 THEN [st |-> "abort", module |-> m, regions |-> rs]
    ELSE ResolveTopLevelReversed(f + 1, <<CreateBEFFuncOp(f, rs[f])>> \o m,
                                 [rs EXCEPT ![f] = 0])

\* ResolveFunctions, "Resolve top level functions": the loop from function f
\* on; m is the module and rs the regions so far.  A named function gives its
\* region to the function pushed to the module (the unique_ptr is moved from).
RECURSIVE ResolveTopLevel(_, _, _)
ResolveTopLevel(f, m, rs) ==
    IF f > Len(function_index) THEN [st |-> "ok", module |-> m, regions |-> rs]
    ELSE IF ~function_index[f].named THEN ResolveTopLevel(f + 1, m, rs)
    ELSE IF function_index[f].native
      THEN IF rs[f] # 0 /\ ~ndebug THEN [st |-> "abort", module |-> m, regions |-> rs]
           ELSE ResolveTopLevel(f + 1, Append(m, CreateNativeFuncOp(f)), rs)
    ELSE IF rs[f] = 0 THEN [st |-> IF ndebug THEN "crash" ELSE "abort",
                            module |-> m, regions |-> rs]
    ELSE ResolveTopLevel(f + 1, Append(m, CreateBEFFuncOp(f, rs[f])),
                         [rs EXCEPT ![f] = 0])

ResolveFunctionsTopLevel ==
    /\ pc = "ResolveFunctions"
    /\ LET r == ResolveTopLevel(1, module, regions)
       IN  IF r.st = "ok"
             THEN /\ module' = r.module
                  /\ regions' = r.regions
                  /\ pc' = "ResolveNested"
                  /\ UNCHANGED <<status, diags, executed>>
             ELSE /\ Dies(r.st)
                  /\ UNCHANGED <<module, regions>>
    /\ UNCHANGED <<ndebug, detail, function_index, bodies, region_references, visited,
                   moves, fnvars, items>>

\* The regions of the operation an entry of region_references is about.
OpRegions(bs, ref) == bs[ref.fn][ref.pos].regions

\* A faulty pass 2 that fills the region slots of an operation from the last
\* one down; C7 does not hold of it.
RECURSIVE TakeBodiesReversed(_, _, _, _, _)
TakeBodiesReversed(ref, i, rs, bs, mv) ==
    IF i > Len(ref.fns) THEN [st |-> "ok", regions |-> rs, bodies |-> bs, moves |-> mv]
    ELSE LET child == rs[ref.fns[i]]
             slot == Len(ref.fns) + 1 - i
             call == [fn |-> ref.fn, pos |-> ref.pos, slot |-> slot,
                      from |-> ref.fns[i], src |-> child]
         IN  IF child = 0 \/ slot > Len(OpRegions(bs, ref))
               THEN [st |-> "abort", regions |-> rs, bodies |-> bs, moves |-> mv]
             ELSE TakeBodiesReversed(ref, i + 1, [rs EXCEPT ![ref.fns[i]] = 0],
                                     [bs EXCEPT ![ref.fn][ref.pos].regions[slot] = child],
                                     Append(mv, call))

\* ResolveFunctions, "Resolve nested regions", the inner loop from slot i on
\* for one entry ref of region_references: op->getRegion(i) takes the body of
\* regions.at(region_indices[i]), which becomes nullptr.  A null child region
\* fails the assert of a debug build and is dereferenced by a release build;
\* mv logs the takeBody calls.
RECURSIVE TakeBodies(_, _, _, _, _)
TakeBodies(ref, i, rs, bs, mv) ==
    IF i > Len(ref.fns) THEN [st |-> "ok", regions |-> rs, bodies |-> bs, moves |-> mv]
    ELSE LET child == rs[ref.fns[i]]
             call == [fn |-> ref.fn, pos |-> ref.pos, slot |-> i,
                      from |-> ref.fns[i], src |-> child]
         IN  IF child = 0 /\ ~ndebug
               THEN [st |-> "abort", regions |-> rs, bodies |-> bs, moves |-> mv]
             ELSE IF child = 0 \/ i > Len(OpRegions(bs, ref))
               THEN [st |-> "crash", regions |-> rs, bodies |-> bs,
                     moves |-> Append(mv, call)]
             ELSE TakeBodies(ref, i + 1, [rs EXCEPT ![ref.fns[i]] = 0],
                             [bs EXCEPT ![ref.fn][ref.pos].regions[i] = child],
                             Append(mv, call))

\* One iteration of the loop over region_references (a DenseMap keyed by the
\* operation's address: the order of the entries is arbitrary).
ResolveNested ==
    /\ pc = "ResolveNested"
    /\ \E ref \in region_references \ visited :
         LET r == IF Len(OpRegions(bodies, ref)) # Len(ref.fns) /\ ~ndebug
                    THEN [st |-> "abort", regions |-> regions, bodies |-> bodies,
                          moves |-> moves]
                    ELSE TakeBodies(ref, 1, regions, bodies, moves)
         IN  /\ regions' = r.regions
             /\ bodies' = r.bodies
             /\ moves' = r.moves
             /\ IF r.st = "ok"
                  THEN /\ visited' = visited \cup {ref}
                       /\ UNCHANGED <<pc, status, diags, executed>>
                  ELSE /\ Dies(r.st)
                       /\ UNCHANGED visited
    /\ UNCHANGED <<ndebug, detail, function_index, region_references, module, fnvars, items>>

\* A faulty final check that finds no region left; C6 does not hold of it.
NoneUnresolved(rs) == FALSE

\* ResolveFunctions, "Check all regions are resolved": some region is still
\* owned by function_context.
Unresolved(rs) == \E f \in 1..Len(rs) : rs[f] # 0

\* The check of ResolveFunctions and the return of ConvertBEFToMLIR.
ResolveCheck ==
    /\ pc = "ResolveNested"
    /\ visited = region_references
    /\ pc' = "done"
    /\ IF Unresolved(regions)
         THEN /\ status' = "null"
              /\ diags' = diags \o <<"Failed to resolve functions.",
                                     "Failed to resolve functions.">>
              /\ executed' = Ends("fail")
         ELSE /\ status' = "module"
              /\ executed' = Ends("ok")
              /\ UNCHANGED diags
    /\ UNCHANGED <<ndebug, detail, function_index, stitchvars, fnvars, items>>

----------------------------------------------------------------------------
Next ==
    \/ ReadHeader
    \/ ReadSections
    \/ ReadFormatVersion
    \/ ReadLocationFilenames
    \/ ReadLocationPositions
    \/ ReadStrings
    \/ ReadTypes
    \/ ReadAttributes
    \/ ReadKernels
    \/ ReadFunctionIndex
    \/ ReadNativeFunction
    \/ ReadFunction
    \/ ReadArgumentsPseudoKernel
    \/ ReadKernel
    \/ ReadReturn
    \/ ReadFunctionsDone
    \/ ResolveFunctionsTopLevel
    \/ ResolveNested
    \/ ResolveCheck

Spec == Init /\ [][Next]_vars

----------------------------------------------------------------------------
\* ReadSections in detail: the loop over the sections of the file.

\* The sections read from one file.
MaxSections == 3

\* BEFSections::Set: sections_.at(id) = data.  vector::at throws
\* std::out_of_range for an id that is no index of sections_.
SetSection(s, id, data) ==
    IF id < kNumSectionIDs
      THEN [st |-> "ok", sections |-> [s EXCEPT ![id] = data]]
      ELSE [st |-> "abort", sections |-> s]

\* A faulty condition that warns only when all three optional sections are
\* missing; C12 does not hold of it.
MissingAllOptionalSections(s) ==
    /\ s[kAttributeTypes] = "empty"
    /\ s[kAttributeNames] = "empty"
    /\ s[kRegisterTypes] = "empty"

\* ReadSections, the condition of the warning.
MissingOptionalSections(s) ==
    \/ s[kAttributeTypes] = "empty"
    \/ s[kAttributeNames] = "empty"
    \/ s[kRegisterTypes] = "empty"

\* The id bytes explored: the known ids, the two bytes after them and the
\* largest byte.
SectionBytes == 0..(kNumSectionIDs + 1) \cup {255}

\* One iteration of `while (!file_reader_.Empty())`: ReadNextSection on the
\* next section of the file, whose header can be read (ok) or not, whose id
\* is any byte and whose payload is empty or not.
ReadNextSection ==
    /\ pc = "ReadSections"
    /\ status = "running"
    /\ nread < MaxSections
    /\ \E ok \in BOOLEAN, id \in SectionBytes, data \in {"empty", "data"} :
         LET r == SetSection(sections, id, data)
         IN  /\ section' = [id |-> id, data |-> data, ok |-> ok]
             /\ nread' = nread + 1
             /\ IF ~ok
                  THEN /\ status' = "null"
                       /\ diags' = Append(diags, "Invalid BEF section header.")
                       /\ executed' = Ends("fail")
                       /\ pc' = "done"
                       /\ UNCHANGED sections
                  ELSE IF r.st = "abort"
                  THEN /\ Dies("abort")
                       /\ UNCHANGED sections
                  ELSE /\ sections' = r.sections
                       /\ UNCHANGED <<pc, status, diags, executed>>
    /\ UNCHANGED <<ndebug, function_index, stitchvars, fnvars, items, attrvars,
                   morevars>>

\* file_reader_.Empty(): the loop is over, ReadSections warns about missing
\* optional sections and succeeds.
ReadSectionsEnd ==
    /\ pc = "ReadSections"
    /\ status = "running"
    /\ pc' = "ReadFormatVersion"
    /\ executed' = Starts("ReadFormatVersion")
    /\ diags' = IF MissingOptionalSections(sections)
                  THEN Append(diags, "Missing AttributeTypes, AttributeNames or RegisterTypes sections.")
                  ELSE diags
    /\ UNCHANGED <<ndebug, status, function_index, stitchvars, fnvars, items, detail>>

InitSections == DetailIdle /\ AtPhase("ReadSections")

NextSections == ReadNextSection \/ ReadSectionsEnd

SpecSections == InitSections /\ [][NextSections]_vars

----------------------------------------------------------------------------
\* ReadAttributes in detail, and the attributes of a kernel entry.

\* The records of the AttributeTypes section and the attribute entries of a
\* kernel explored.
MaxAttrRecords == 2
MaxKernelAttrs == 2

\* An AttributeTypes section that is not empty: its count can be read or
\* not, it declares num records of which Len(recs) can be read, and attr is
\* what ReadAttribute(attribute_type, offset) returns for a record (a null
\* attribute on error).
AttributeTypesSections ==
    {[count_ok |-> FALSE, num |-> 0, recs |-> <<>>]}
    \cup {[count_ok |-> TRUE, num |-> n, recs |-> r] :
            n \in 0..MaxAttrRecords,
            r \in SeqsUpTo([offset : AttrOffsets, attr : {"null", "a", "b"}],
                           MaxAttrRecords)}

\* ReadAttributes cannot read the count or one of the declared records.
Truncated(at) == ~at.count_ok \/ Len(at.recs) < at.num

\* bef_file_.attributes.insert({offset, attr}) for the records from k on;
\* DenseMap::insert keeps the value of a key that is in the map.
RECURSIVE InsertAttributes(_, _, _)
InsertAttributes(recs, k, m) ==
    IF k > Len(recs) THEN m
    ELSE InsertAttributes(recs, k + 1,
           IF m[recs[k].offset] = "absent"
             THEN [m EXCEPT ![recs[k].offset] = recs[k].attr]
             ELSE m)

\* BEFFile::GetAttribute: attributes.lookup(offset), a null attribute when
\* the offset is no key.
GetAttribute(m, offset) == IF m[offset] = "absent" THEN "null" ELSE m[offset]

\* The dummy value of ReadKernel: IntegerAttr of i32 0xdeadbeef.
DummyAttribute == "i32 0xdeadbeef"

\* ConvertBEFToMLIR, the ReadAttributes statement: ReadAttributes returns
\* success at once when the AttributeTypes section is empty, else inserts
\* the records it can read and fails if it cannot read them all.
ReadAttributesSection ==
    /\ pc = "ReadAttributes"
    /\ IF sections[kAttributeTypes] = "empty"
         THEN /\ WarnPhase("ReadAttributes", TRUE, "ReadKernels",
                           "Invalid Attributes/AttributeTypes section.")
              /\ UNCHANGED <<attribute_types, attributes>>
         ELSE \E at \in AttributeTypesSections :
                /\ Len(at.recs) <= at.num
                /\ WarnPhase("ReadAttributes", ~Truncated(at), "ReadKernels",
                             "Invalid Attributes/AttributeTypes section.")
                /\ attribute_types' = at
                /\ attributes' = InsertAttributes(at.recs, 1, attributes)
    /\ UNCHANGED <<ndebug, function_index, stitchvars, fnvars, items, secvars,
                   attr_refs, op_attributes, morevars>>

\* A faulty attribute resolution that keeps a null attribute; C13 does not
\* hold of it.
KernelAttributeNull(i, ref, m) ==
    [name |-> IF ref.name = "none" THEN <<"attr", i - 1>> ELSE <<"string", ref.name>>,
     value |-> GetAttribute(m, ref.offset)]

\* ReadKernel, "Resolve attributes", attribute i (from 1) of the entry: its
\* name is attr<i-1> unless a name offset can be read from the AttributeNames
\* section and is the offset of a string (ref.name), its value is the
\* attribute at ref.offset or the dummy.
KernelAttribute(i, ref, m) ==
    [name |-> IF ref.name = "none" THEN <<"attr", i - 1>> ELSE <<"string", ref.name>>,
     value |-> IF GetAttribute(m, ref.offset) = "null"
                 THEN DummyAttribute
                 ELSE GetAttribute(m, ref.offset)]

\* The attribute entries of a kernel explored.
KernelAttrRefs ==
    SeqsUpTo([offset : AttrOffsets, name : {"none", "x", "y"}], MaxKernelAttrs)

\* ReadFunctions, for one kernel entry of a function: the attributes
\* ReadKernel adds to the operation.
ReadKernelAttributes ==
    /\ pc = "ReadFunctions"
    /\ status = "running"
    /\ \E refs \in KernelAttrRefs :
         /\ attr_refs' = refs
         /\ op_attributes' = [i \in 1..Len(refs) |-> KernelAttribute(i, refs[i], attributes)]
    /\ UNCHANGED <<ndebug, pc, status, diags, executed, function_index, stitchvars,
                   fnvars, items, secvars, attribute_types, attributes, morevars>>

\* The file holds one named BEF function without arguments and results.
OneFunction == <<[named |-> TRUE, native |-> FALSE, nargs |-> 0, nres |-> 0]>>

\* The sections are split; the AttributeTypes section is missing or not.
InitAttributes ==
    /\ AtPhase("ReadAttributes")
    /\ \E data \in {"empty", "data"} :
         sections = [NoSections EXCEPT ![kAttributeTypes] = data]
    /\ section = NoSection
    /\ nread = 0
    /\ TablesIdle
    /\ HostIdle
    /\ StreamsIdle

NextAttributes ==
    \/ ReadAttributesSection
    \/ ReadKernels
    \/ ReadFunctionIndexOf({OneFunction})
    \/ ReadKernelAttributes

SpecAttributes == InitAttributes /\ [][NextAttributes]_vars

----------------------------------------------------------------------------
\* The Strings, Types, Kernels and FunctionIndex sections in detail.  A
\* string is the tuple of its characters, and an offset into the Strings
\* section counts bytes from 0: a string of n characters takes n + 1 bytes.

MaxStrings == 2
MaxHandle == 4
MaxTypes == 2
MaxKernelNames == 1
MaxIndexed == 1

\* The strings explored: the empty string (the name of an unnamed function),
\* the text of a type, and a name that is not the text of a type.
Texts == {<<>>, <<"i", "3", "2">>, <<"f">>}

\* The offsets into the Strings section that the other sections hold.
Handles == 0..MaxHandle

\* The indices into bef_file_.types that the FunctionIndex section holds.
TypeIndices == 0..MaxTypes

\* mlir::Type(): the null type.
NullType == "null"

\* llvm::None and an Optional with a value.
None == [has |-> FALSE, value |-> <<>>]
Some(v) == [has |-> TRUE, value |-> v]

\* A string_view copied from the storage of an empty Optional.
JunkName == <<"junk">>

\* ReadNullTerminatedStrings with the action of ReadStrings, on the
\* terminated strings ss[k], ... of a section, the first of them at offset:
\* bef_file_.strings[offset] = str.
RECURSIVE ReadNullTerminatedStrings(_, _, _, _)
ReadNullTerminatedStrings(ss, k, offset, m) ==
    IF k > Len(ss) THEN m
    ELSE ReadNullTerminatedStrings(ss, k + 1, offset + Len(ss[k]) + 1,
                                   (offset :> ss[k]) @@ m)

\* BEFFile::GetString on the map m.
GetString(m, offset) == IF offset \in DOMAIN m THEN Some(m[offset]) ELSE None

\* BEFFile::GetType on the vector ts; the code counts from 0.
GetType(ts, index) == IF index < Len(ts) THEN ts[index + 1] ELSE NullType

\* mlir::parseType: the type a string is the text of, or the null type.
ParseType(str) ==
    IF str = <<"i", "3", "2">> THEN "i32"
    ELSE IF str = <<"f", "3", "2">> THEN "f32"
    ELSE NullType

\* ReadStrings: the section holds the strings ss, the last of them without
\* its terminator when ~terminated; the strings before it are kept.
ReadStringsSection ==
    /\ pc = "ReadStrings"
    /\ \E ss \in SeqsUpTo(Texts, MaxStrings), terminated \in BOOLEAN :
         /\ ss = <<>> => terminated
         /\ strings' = ReadNullTerminatedStrings(
                         IF terminated THEN ss ELSE SubSeq(ss, 1, Len(ss) - 1),
                         1, 0, strings)
         /\ FatalPhase("ReadStrings", terminated, "ReadTypes",
                       "Invalid Strings section.")
    /\ UNCHANGED <<ndebug, function_index, stitchvars, fnvars, items, secvars,
                   attrvars, regvars, bytevars, hostvars, streamvars, types, kernels, signatures>>

\* ReadStringOffsetSection on the offsets from k on: the strings handed to
\* the action up to the first offset that GetString does not find.
RECURSIVE ReadStringOffsetSection(_, _, _, _)
ReadStringOffsetSection(offsets, k, m, acc) ==
    IF k > Len(offsets) THEN [ok |-> TRUE, strs |-> acc]
    ELSE IF ~GetString(m, offsets[k]).has THEN [ok |-> FALSE, strs |-> acc]
    ELSE ReadStringOffsetSection(offsets, k + 1, m,
                                 Append(acc, GetString(m, offsets[k]).value))

\* ReadTypes: the array of offsets can be read (array_ok) or not; every
\* string found is parsed and the result kept, also a null type.
ReadTypesSection ==
    /\ pc = "ReadTypes"
    /\ \E array_ok \in BOOLEAN, offsets \in SeqsUpTo(Handles, MaxTypes) :
         LET r == IF array_ok THEN ReadStringOffsetSection(offsets, 1, strings, <<>>)
                  ELSE [ok |-> FALSE, strs |-> <<>>]
         IN  /\ types' = types \o [i \in 1..Len(r.strs) |-> ParseType(r.strs[i])]
             /\ FatalPhase("ReadTypes", r.ok, "ReadAttributes", "Invalid Types section.")
    /\ UNCHANGED <<ndebug, function_index, stitchvars, fnvars, items, secvars,
                   attrvars, regvars, bytevars, hostvars, streamvars, strings, kernels, signatures>>

\* ReadKernels: the names of the kernels.
ReadKernelsSection ==
    /\ pc = "ReadKernels"
    /\ \E array_ok \in BOOLEAN, offsets \in SeqsUpTo(Handles, MaxKernelNames) :
         LET r == IF array_ok THEN ReadStringOffsetSection(offsets, 1, strings, <<>>)
                  ELSE [ok |-> FALSE, strs |-> <<>>]
         IN  /\ kernels' = kernels \o r.strs
             /\ FatalPhase("ReadKernels", r.ok, "ReadFunctionIndex",
                           "Invalid Kernels section.")
    /\ UNCHANGED <<ndebug, function_index, stitchvars, fnvars, items, secvars,
                   attrvars, regvars, bytevars, hostvars, streamvars, strings, types, signatures>>

\* The lambda read_types of ReadFunctionIndex on the type indices from k
\* on: the types pushed to out up to the first index without a type.
RECURSIVE read_types(_, _, _, _)
read_types(indices, k, ts, out) ==
    IF k > Len(indices) THEN [ok |-> TRUE, out |-> out]
    ELSE IF GetType(ts, indices[k]) = NullType THEN [ok |-> FALSE, out |-> out]
    ELSE read_types(indices, k + 1, ts, Append(out, GetType(ts, indices[k])))

\* ReadFunctionIndex on a section of at most one entry.  The count, the
\* head of the entry (kind, function_offset, name_offset) and its two arrays
\* of type indices can be read or not.  GetString(name_offset).getValue()
\* on an empty Optional fails an assert of a debug build; a release build
\* copies a string_view from storage that was never written (junk: it is
\* empty, or some text, or using it ends the process).
ReadFunctionIndexSection ==
    /\ pc = "ReadFunctionIndex"
    /\ status = "running"
    /\ \E count_ok, entry_ok, arrays_ok, native \in BOOLEAN,
          function_count \in 0..MaxIndexed, name_offset \in Handles,
          args \in SeqsUpTo(TypeIndices, MaxFnArgs),
          results \in SeqsUpTo(TypeIndices, MaxFnResults),
          junk \in {"crash", "empty", "text"} :
         LET name == GetString(strings, name_offset)
             a == read_types(args, 1, types, <<>>)
             r == read_types(results, 1, types, <<>>)
             view == IF name.has THEN name.value
                     ELSE IF junk = "empty" THEN <<>> ELSE JunkName
             argument_types == IF arrays_ok THEN a.out ELSE <<>>
             result_types == IF arrays_ok /\ a.ok THEN r.out ELSE <<>>
         IN  IF ~count_ok \/ (function_count > 0 /\ ~entry_ok)
               THEN /\ FatalPhase("ReadFunctionIndex", FALSE, "ReadFunctions",
                                  "Invalid FunctionIndex section.")
                    /\ UNCHANGED <<function_index, signatures>>
             ELSE IF function_count = 0
               THEN /\ FatalPhase("ReadFunctionIndex", TRUE, "ReadFunctions",
                                  "Invalid FunctionIndex section.")
                    /\ UNCHANGED <<function_index, signatures>>
             ELSE IF ~name.has /\ ~ndebug
               THEN /\ Dies("abort")
                    /\ UNCHANGED <<function_index, signatures>>
             ELSE IF ~name.has /\ junk = "crash"
               THEN /\ Dies("crash")
                    /\ UNCHANGED <<function_index, signatures>>
             ELSE /\ function_index' =
                       Append(function_index,
                              [named |-> view # <<>>, native |-> native,
                               nargs |-> Len(argument_types),
                               nres |-> Len(result_types)])
                  /\ signatures' =
                       Append(signatures,
                              [name |-> view, argument_types |-> argument_types,
                               result_types |-> result_types])
                  /\ FatalPhase("ReadFunctionIndex", arrays_ok /\ a.ok /\ r.ok,
                                "ReadFunctions", "Invalid FunctionIndex section.")
    /\ UNCHANGED <<ndebug, stitchvars, fnvars, items, secvars, attrvars, regvars,
                   bytevars, hostvars, streamvars, strings, types, kernels>>

\* The file has no AttributeTypes section.
InitHandles == DetailIdle /\ AtPhase("ReadStrings")

NextHandles ==
    \/ ReadStringsSection
    \/ ReadTypesSection
    \/ ReadAttributesSection
    \/ ReadKernelsSection
    \/ ReadFunctionIndexSection

SpecHandles == InitHandles /\ [][NextHandles]_vars

----------------------------------------------------------------------------
\* The register table of a function with its types and use counts, and the
\* arguments pseudo kernel with the types of the block arguments.

MaxUses == 1
MaxTypedKernels == 1

\* mlir::NoneType.
NoneType == "none"

\* RegisterInfo(type, num_uses); its value is in register_table.
RegisterInfo(type, num_uses) == [type |-> type, num_uses |-> num_uses]

\* ReadRegisterTable, the loop: the type of register i is the type at its
\* index in bef_file_.types when there are type indices, and NoneType when
\* there are none or the type is null.
RegisterType(indices, i, ts) ==
    IF indices # <<>> /\ GetType(ts, indices[i]) # NullType
      THEN GetType(ts, indices[i])
      ELSE NoneType

\* ReadFunctions, loop body for a BEF function, up to the call of ReadKernels,
\* with ReadRegisterTable in detail.  ReadIntArray on the RegisterTypes
\* reader fails when the section is missing or cut short (~types_ok), and
\* reg_type_indices is cleared.  The assert on the sizes is for a debug build;
\* reg_type_indices.at(i) throws when the vector is too short.
ReadFunctionTyped ==
    /\ pc = "ReadFunctions"
    /\ NextFunction <= Len(function_index)
    /\ ~function_index[NextFunction].native
    /\ \/ \E msg \in ReadFunctionFailures :
            /\ FailFunctions(<<msg>>)
            /\ UNCHANGED <<ndebug, detail, function_index, stitchvars, fnvars, items>>
       \/ LET start == IF function_index[NextFunction].nargs > 0 THEN 1 ELSE 0
          IN  \E types_ok \in BOOLEAN,
                 indices \in SeqsUpTo(TypeIndices, MaxRegs),
                 reg_uses \in SeqsUpTo(0..MaxUses, MaxRegs),
                 nk \in 0..(start + MaxTypedKernels) :
              \E rr \in [1..function_index[NextFunction].nres -> 1..(Len(reg_uses) + 1)] :
                LET read == IF sections[kRegisterTypes] = "empty" \/ ~types_ok
                              THEN <<>> ELSE indices
                IN  /\ items + Len(reg_uses) + nk <= MaxItems
                    /\ reg_type_indices' = read
                    /\ IF \/ read # <<>> /\ Len(read) # Len(reg_uses) /\ ~ndebug
                          \/ read # <<>> /\ Len(read) < Len(reg_uses)
                         THEN /\ Dies("abort")
                              /\ UNCHANGED <<fnvars, items, register_info>>
                         ELSE /\ items' = items + Len(reg_uses) + nk
                              /\ register_table' = [r \in 1..Len(reg_uses) |-> [value |-> Null]]
                              /\ register_info' =
                                   [r \in 1..Len(reg_uses) |->
                                      RegisterInfo(RegisterType(read, r, types), reg_uses[r])]
                              /\ num_kernels' = nk
                              /\ result_regs' = rr
                              /\ block' = <<>>
                              /\ kernel' = NoKernel
                              /\ ki' = start + 1
                              /\ pc' = IF start = 1 THEN "ReadArgumentsPseudoKernel"
                                                    ELSE "ReadKernel"
                              /\ UNCHANGED <<status, diags, executed, beyond, oob>>
                    /\ UNCHANGED <<ndebug, secvars, attrvars, handlevars, bytevars, hostvars, streamvars,
                                   function_index, stitchvars>>

\* The assert of AddDefinition in ReadArgumentsPseudoKernel, from block
\* argument i on: it fails when AddDefinition comes to a register in range
\* and without a value (defined holds the registers given one) whose type is
\* neither the type of the argument nor NoneType.
RECURSIVE TypeAssertFails(_, _, _, _, _)
TypeAssertFails(results, i, argument_types, info, defined) ==
    IF i > Len(results) THEN FALSE
    ELSE IF results[i] > Len(info) \/ results[i] \in defined THEN FALSE
    ELSE IF /\ info[results[i]].type # argument_types[i]
            /\ info[results[i]].type # NoneType
      THEN TRUE
    ELSE TypeAssertFails(results, i + 1, argument_types, info,
                         defined \cup {results[i]})

\* ReadArgumentsPseudoKernel with the types of the block arguments: a debug
\* build stops at the assert of AddDefinition, a release build has no check
\* of the types.
ReadArgumentsPseudoKernelTyped ==
    /\ pc = "ReadArgumentsPseudoKernel"
    /\ \/ /\ ReadArgumentsPseudoKernel
          /\ \/ ndebug
             \/ ~TypeAssertFails(kernel'.results, 1,
                                 signatures[NextFunction].argument_types,
                                 register_info, {})
       \/ /\ ~ndebug
          /\ \E results \in [1..function_index[NextFunction].nargs
                               -> 1..(Len(register_table) + 1)] :
               /\ TypeAssertFails(results, 1, signatures[NextFunction].argument_types,
                                  register_info, {})
               /\ kernel' = [hdr |-> "pseudo", args |-> <<>>, funcs |-> <<>>,
                             results |-> results]
          /\ Dies("abort")
          /\ UNCHANGED <<ndebug, detail, function_index, stitchvars, register_table,
                         beyond, oob, num_kernels, ki, result_regs, block, items>>

\* The Strings section of the files explored, and the type names in it.
RegisterStrings ==
    ReadNullTerminatedStrings(<< <<"i", "3", "2">>, <<"f", "3", "2">>, <<"f">> >>,
                              1, 0, <<>>)

\* The sections before the Functions section are read: the Types section
\* has an entry that does not parse or not, the RegisterTypes section is
\* missing or not, and the function index holds one named BEF function
\* without results, whose arguments have the first type.
InitRegisters ==
    /\ ndebug \in BOOLEAN
    /\ pc = "ReadFunctions"
    /\ status = "running"
    /\ diags = <<>>
    /\ executed = Before("ReadFunctions", 1)
    /\ regions = <<>>
    /\ bodies = <<>>
    /\ region_references = {}
    /\ visited = {}
    /\ module = <<>>
    /\ moves = <<>>
    /\ register_table = <<>>
    /\ beyond = Unread
    /\ num_kernels = 0
    /\ ki = 1
    /\ result_regs = <<>>
    /\ block = <<>>
    /\ kernel = NoKernel
    /\ oob = FALSE
    /\ \E data \in {"empty", "data"} :
         sections = [NoSections EXCEPT ![kRegisterTypes] = data]
    /\ section = NoSection
    /\ nread = 0
    /\ attribute_types = NoAttributeTypes
    /\ attributes = NoAttributes
    /\ attr_refs = <<>>
    /\ op_attributes = <<>>
    /\ strings = RegisterStrings
    /\ kernels = <<>>
    /\ \E offsets \in {<<0, 4>>, <<0, 8>>} :
         types = [i \in 1..2 |-> ParseType(strings[offsets[i]])]
    /\ \E indices \in SeqsUpTo({0}, MaxFnArgs) :
         LET a == read_types(indices, 1, types, <<>>)
         IN  /\ signatures = <<[name |-> strings[8], argument_types |-> a.out,
                                result_types |-> <<>>]>>
             /\ function_index = <<[named |-> TRUE, native |-> FALSE,
                                    nargs |-> Len(a.out), nres |-> 0]>>
             /\ items = 1 + Len(a.out)
    /\ register_info = <<>>
    /\ reg_type_indices = <<>>
    /\ BytesIdle
    /\ HostIdle
    /\ StreamsIdle

NextRegisters ==
    \/ ReadFunctionTyped
    \/ ReadArgumentsPseudoKernelTyped
    \/ ReadKernel
    \/ ReadReturn
    \/ ReadFunctionsDone

SpecRegisters == InitRegisters /\ [][NextRegisters]_vars

----------------------------------------------------------------------------
\* BEFAttributeReader on the bytes of the Attributes section.  The byte at
\* offset o of the code is pool[o + 1]; an offset below 0 stands for the
\* size_t that `offset--` wraps to, the address before the section.

MaxPool == 3

\* The bytes explored: with and without the high bit.
Bytes == {0, 1, 2, 127, 128, 129, 130, 255}

\* What a release build finds at an address outside the section: Fault ends
\* the process, else a byte (the bytes explored there end a length).
Fault == -1
Outside == {b \in Bytes : b < 128} \cup {Fault}

\* A byte of a string that was read outside the section.
JunkByte == -1

InRange(pool, o) == 0 <= o /\ o < Len(pool)

\* A faulty ReadLength that does not shift the value; C19 does not hold of
\* it.
RECURSIVE ReadLengthLoopNoShift(_, _, _, _)
ReadLengthLoopNoShift(pool, o, value, junk) ==
    IF ~InRange(pool, o) /\ (~ndebug \/ junk = Fault)
      THEN [st |-> IF ~ndebug THEN "abort" ELSE "crash", value |-> value,
            outside |-> ndebug]
    ELSE LET byte == IF InRange(pool, o) THEN pool[o + 1] ELSE junk
             next == value + (byte % 128)
         IN  IF byte < 128
               THEN [st |-> "ok", value |-> next, outside |-> ~InRange(pool, o)]
             ELSE IF o = 0 /\ ~ndebug
               THEN [st |-> "abort", value |-> next, outside |-> FALSE]
             ELSE [ReadLengthLoopNoShift(pool, o - 1, next, junk)
                     EXCEPT !.outside = @ \/ ~InRange(pool, o)]

\* ReadLength from `size_t value = 0` on, with offset o already decremented:
\* the loop over the bytes with the high bit and the statement after it.
\* attributes_[o] outside the section fails the assert of ArrayRef in a debug
\* build; a release build reads what is there.
RECURSIVE ReadLengthLoop(_, _, _, _)
ReadLengthLoop(pool, o, value, junk) ==
    IF ~InRange(pool, o) /\ (~ndebug \/ junk = Fault)
      THEN [st |-> IF ~ndebug THEN "abort" ELSE "crash", value |-> value,
            outside |-> ndebug]
    ELSE LET byte == IF InRange(pool, o) THEN pool[o + 1] ELSE junk
             next == value * 128 + (byte % 128)
         IN  IF byte < 128
               THEN [st |-> "ok", value |-> next, outside |-> ~InRange(pool, o)]
             ELSE IF o = 0 /\ ~ndebug
               THEN [st |-> "abort", value |-> next, outside |-> FALSE]
             ELSE [ReadLengthLoop(pool, o - 1, next, junk)
                     EXCEPT !.outside = @ \/ ~InRange(pool, o)]

\* ReadLength(offset).
ReadLength(pool, offset, junk) ==
    IF offset = 0 /\ ~ndebug THEN [st |-> "abort", value |-> 0, outside |-> FALSE]
    ELSE ReadLengthLoop(pool, offset - 1, 0, junk)

\* ReadStringAttribute on a reader at offset, called by ReadAttribute(type,
\* offset): drop_front, the assert on the reader and &attributes_[offset]
\* stop a debug build when the offset is 0 or not inside the section.  The
\* string_view takes `length` bytes from the offset on, wherever they are.
ReadStringAttribute(pool, offset, junk) ==
    LET len == ReadLength(pool, offset, junk)
        none == [st |-> "abort", length |-> 0, str |-> <<>>, outside |-> FALSE]
    IN  IF ~ndebug /\ (offset = 0 \/ offset >= Len(pool)) THEN none
        ELSE IF len.st # "ok"
          THEN [none EXCEPT !.st = len.st, !.outside = len.outside]
        ELSE IF offset + len.value <= Len(pool)
          THEN [st |-> "ok", length |-> len.value,
                str |-> SubSeq(pool, offset + 1, offset + len.value),
                outside |-> len.outside]
        ELSE IF junk = Fault
          THEN [st |-> "crash", length |-> len.value, str |-> <<>>, outside |-> TRUE]
        ELSE [st |-> "ok", length |-> len.value,
              str |-> Append(SubSeq(pool, offset + 1, Len(pool)), JunkByte),
              outside |-> TRUE]

\* An array attribute reader calls ReadLength(offset).
CallReadLength ==
    /\ pc = "ReadAttributes"
    /\ status = "running"
    /\ length_read = NoLength
    /\ \E junk \in Outside :
         LET r == ReadLength(attr_pool, attr_offset, junk)
         IN  /\ length_read' = r
             /\ IF r.st = "ok" THEN UNCHANGED <<pc, status, diags, executed>>
                ELSE Dies(r.st)
    /\ UNCHANGED <<ndebug, function_index, stitchvars, fnvars, items, secvars,
                   attrvars, handlevars, regvars, hostvars, streamvars, attr_pool, attr_offset, string_attr>>

\* ReadAttribute(type, offset) for a string attribute.
CallReadStringAttribute ==
    /\ pc = "ReadAttributes"
    /\ status = "running"
    /\ length_read = NoLength
    /\ \E junk \in Outside :
         LET r == ReadStringAttribute(attr_pool, attr_offset, junk)
         IN  /\ string_attr' = r
             /\ length_read' = IF r.st = "abort" /\ (attr_offset = 0 \/ attr_offset >= Len(attr_pool))
                                 THEN NoLength
                                 ELSE ReadLength(attr_pool, attr_offset, junk)
             /\ IF r.st = "ok" THEN UNCHANGED <<pc, status, diags, executed>>
                ELSE Dies(r.st)
    /\ UNCHANGED <<ndebug, function_index, stitchvars, fnvars, items, secvars,
                   attrvars, handlevars, regvars, hostvars, streamvars, attr_pool, attr_offset>>

\* ReadAttributes is to read an attribute at some offset of an Attributes
\* section.
InitBytes ==
    /\ AtPhase("ReadAttributes")
    /\ sections = [NoSections EXCEPT ![kAttributeTypes] = "data"]
    /\ section = NoSection
    /\ nread = 0
    /\ attribute_types = NoAttributeTypes
    /\ attributes = NoAttributes
    /\ attr_refs = <<>>
    /\ op_attributes = <<>>
    /\ HandlesIdle
    /\ register_info = <<>>
    /\ reg_type_indices = <<>>
    /\ attr_pool \in SeqsUpTo(Bytes, MaxPool)
    /\ attr_offset \in 0..(MaxPool + 1)
    /\ length_read = NoLength
    /\ string_attr = NoString
    /\ HostIdle
    /\ StreamsIdle

NextBytes == CallReadLength \/ CallReadStringAttribute

SpecBytes == InitBytes /\ [][NextBytes]_vars

----------------------------------------------------------------------------
\* KernelFrameBuilder (kernel_frame.h): the caller of a kernel fills one
\* vector with the arguments, the result slots and the attributes of a kernel
\* invocation.

MaxFrameSlots == 4
MaxFrameResults == 2
MaxResets == 1
\* n result slots, as resize() value-initialises them. The union of an element
\* of async_value_or_attrs_ does not say which member was written: kind
\* records it.
ResultSlots(n) == [i \in 1..n |-> [kind |-> "result", ptr |-> 0]]

\* An assert of the builder does not hold: the debug build aborts and the
\* call does nothing else.
FrameAborts(call) ==
    /\ frame_status' = "abort"
    /\ last_call' = call
    /\ UNCHANGED <<async_value_or_attrs, num_arguments, num_results,
                   attribute_section, attrs_added, violated, resets>>

\* While a frame is built nothing else runs, and the build is what it is.
BuilderOnly ==
    UNCHANGED <<ndebug, pc, status, diags, executed, function_index, stitchvars,
                fnvars, items, secvars, attrvars, handlevars, regvars, bytevars,
                streamvars,
                refcounts, raii_frames, sync_log_results, log_counter, mu,
                metadata_ostream, log_threads, ids, served>>

\* KernelFrame::GetNumAttributes(). The vector is never shorter than
\* num_arguments_ + num_results_, so the unsigned difference does not wrap.
GetNumAttributes == Len(async_value_or_attrs) - num_arguments - num_results

\* KernelFrameBuilder::SetAttributeSection.
SetAttributeSection ==
    /\ frame_status = "ok"
    /\ BuilderOnly
    /\ attribute_section = 0
    /\ attribute_section' = 1
    /\ last_call' = "SetAttributeSection"
    /\ UNCHANGED <<async_value_or_attrs, num_arguments, num_results,
                   attrs_added, violated, resets, frame_status>>

\* KernelFrameBuilder::AddArg.
AddArg ==
    /\ frame_status = "ok"
    /\ BuilderOnly
    /\ Len(async_value_or_attrs) < MaxFrameSlots
    /\ \E v \in {1, 2} :
         IF num_results # -1 /\ ~ndebug
         THEN FrameAborts("AddArg")
         ELSE /\ async_value_or_attrs' = Append(async_value_or_attrs,
                                              [kind |-> "argument", ptr |-> v])
              /\ num_arguments' = num_arguments + 1
              /\ violated' = (violated \/ num_results # -1)
              /\ last_call' = "AddArg"
              /\ UNCHANGED <<num_results, attribute_section, attrs_added,
                             resets, frame_status>>

\* KernelFrameBuilder::AddAttribute.
AddAttribute ==
    /\ frame_status = "ok"
    /\ BuilderOnly
    /\ Len(async_value_or_attrs) < MaxFrameSlots
    /\ \E a \in {1} :
         IF num_results = -1 /\ ~ndebug
         THEN FrameAborts("AddAttribute")
         ELSE /\ async_value_or_attrs' = Append(async_value_or_attrs,
                                              [kind |-> "attribute", ptr |-> a])
              /\ attrs_added' = attrs_added + 1
              /\ violated' = (violated \/ num_results = -1)
              /\ last_call' = "AddAttribute"
              /\ UNCHANGED <<num_arguments, num_results, attribute_section,
                             resets, frame_status>>

\* A buggy SetNumResults that puts the result slots in front of the
\* arguments.
SetNumResultsInFront(n) ==
    /\ num_results' = n
    /\ async_value_or_attrs' = ResultSlots(n) \o async_value_or_attrs

\* The two assignments of SetNumResults(n).
SetNumResultsOf(n) ==
    /\ num_results' = n
    /\ async_value_or_attrs' = async_value_or_attrs \o ResultSlots(n)

\* KernelFrameBuilder::SetNumResults.
SetNumResults ==
    /\ frame_status = "ok"
    /\ BuilderOnly
    /\ \E n \in 0..MaxFrameResults :
         /\ Len(async_value_or_attrs) + n <= MaxFrameSlots
         /\ LET broken == \/ num_arguments # Len(async_value_or_attrs)
                          \/ num_results # -1
            IN  IF broken /\ ~ndebug
                THEN FrameAborts("SetNumResults")
                ELSE /\ SetNumResultsOf(n)
                     /\ violated' = (violated \/ broken)
                     /\ last_call' = "SetNumResults"
                     /\ UNCHANGED <<num_arguments, attribute_section,
                                    attrs_added, resets, frame_status>>

\* KernelFrameBuilder::Reset.
Reset ==
    /\ frame_status = "ok"
    /\ BuilderOnly
    /\ resets < MaxResets
    /\ async_value_or_attrs' = <<>>
    /\ num_arguments' = 0
    /\ num_results' = -1
    /\ attrs_added' = 0
    /\ violated' = FALSE
    /\ last_call' = "Reset"
    /\ resets' = resets + 1
    /\ UNCHANGED <<attribute_section, frame_status>>

NextBuilder ==
    \/ SetAttributeSection
    \/ AddArg
    \/ SetNumResults
    \/ AddAttribute
    \/ Reset

\* A builder right after its construction, in either build.
SpecBuilder == Init /\ [][NextBuilder]_vars

----------------------------------------------------------------------------
\* RAIIKernelFrame (kernel_frame.h): a copy of a KernelFrame that holds a
\* reference to each argument and result.  An object is the record of
\*   values  the first num_arguments_ + num_results_ elements of its storage
\*           (what a moved-from small vector leaves in its inline buffer),
\*   n       num_arguments_ + num_results_,
\*   size    async_value_or_attrs_.size(),
\*   alive   its destructor has not run.

MaxRAIIFrames == 3
MaxRAIIArgs == 2

\* While RAIIKernelFrames are made and destroyed the KernelFrame they come
\* from stays as it is, and nothing else runs.
RAIIOnly ==
    UNCHANGED <<ndebug, pc, status, diags, executed, function_index, stitchvars,
                fnvars, items, secvars, attrvars, handlevars, regvars, bytevars,
                streamvars,
                async_value_or_attrs, num_arguments, num_results,
                attribute_section, attrs_added, violated, last_call, resets,
                sync_log_results, log_counter, mu, metadata_ostream,
                log_threads, ids, served>>

\* AddRefAll (d = 1) and DropRefAll (d = -1): the count of every value changes
\* by d for each element that points to it.
RefAll(rc, values, d) ==
    [v \in DOMAIN rc |->
       rc[v] + d * Cardinality({i \in DOMAIN values : values[i] = v})]

\* The loop of AddRefAll or DropRefAll over the elements of f calls a member
\* of a null AsyncValue (a result that was not set), or reads the elements of
\* an empty vector (f was moved from and still has its counts): undefined.
RefAllUndefined(f) ==
    \/ \E i \in DOMAIN f.values : f.n > 0 /\ f.values[i] = 0
    \/ f.n > 0 /\ f.size = 0

\* The body of the two copying constructors: the members of f are copied and
\* AddRefAll() runs.  Indexing an empty vector fails an assert of SmallVector
\* in a debug build.
CopyAndAddRefAll(f) ==
    /\ frame_status = "ok"
    /\ Len(raii_frames) < MaxRAIIFrames
    /\ RAIIOnly
    /\ IF f.n > 0 /\ f.size = 0 /\ ~ndebug
       THEN frame_status' = "abort" /\ UNCHANGED <<refcounts, raii_frames>>
       ELSE \/ /\ RefAllUndefined(f)
               /\ frame_status' = "crash"
               /\ UNCHANGED <<refcounts, raii_frames>>
            \/ /\ refcounts' = RefAll(refcounts, f.values, 1)
               /\ raii_frames' = Append(raii_frames, [f EXCEPT !.alive = TRUE])
               /\ UNCHANGED frame_status

\* RAIIKernelFrame(const KernelFrame& frame).
RAIIKernelFrame ==
    /\ frame_status = "ok"
    /\ CopyAndAddRefAll(
         [values |-> [i \in 1..(num_arguments + num_results) |->
                        async_value_or_attrs[i].ptr],
          n |-> num_arguments + num_results,
          size |-> Len(async_value_or_attrs),
          alive |-> TRUE])

\* RAIIKernelFrame(const RAIIKernelFrame& that).
RAIIKernelFrameCopy ==
    \E i \in DOMAIN raii_frames :
      /\ raii_frames[i].alive
      /\ CopyAndAddRefAll(raii_frames[i])

\* RAIIKernelFrame(RAIIKernelFrame&& that): the vector is moved, which
\* leaves that's vector empty; the two counts are copied.
RAIIKernelFrameMove ==
    /\ frame_status = "ok"
    /\ Len(raii_frames) < MaxRAIIFrames
    /\ RAIIOnly
    /\ \E i \in DOMAIN raii_frames :
         /\ raii_frames[i].alive
         /\ raii_frames' = Append([raii_frames EXCEPT ![i].size = 0],
                                  raii_frames[i])
    /\ UNCHANGED <<refcounts, frame_status>>

\* ~RAIIKernelFrame().
RAIIKernelFrameDestroy ==
    /\ frame_status = "ok"
    /\ RAIIOnly
    /\ \E i \in DOMAIN raii_frames :
         LET f == raii_frames[i]
         IN  /\ f.alive
             /\ raii_frames' = [raii_frames EXCEPT ![i].alive = FALSE]
             /\ IF f.size = 0
                THEN UNCHANGED <<refcounts, frame_status>>
                ELSE \/ /\ RefAllUndefined(f)
                        /\ frame_status' = "crash"
                        /\ UNCHANGED refcounts
                     \/ /\ refcounts' = RefAll(refcounts, f.values, -1)
                        /\ UNCHANGED frame_status

\* A kernel was called with a frame of up to MaxRAIIArgs arguments (the same
\* value may be passed twice), up to one result, which the kernel has set or
\* not, and up to one attribute; every value has one reference.
InitRAII ==
    /\ AtPhase("ReadHeader")
    /\ sections = NoSections
    /\ section = NoSection
    /\ nread = 0
    /\ TablesIdle
    /\ StreamsIdle
    /\ \E args \in SeqsUpTo({1, 2}, MaxRAIIArgs), res \in SeqsUpTo({0, 3}, 1),
          attrs \in SeqsUpTo({1}, 1) :
         /\ async_value_or_attrs =
              [i \in 1..Len(args) |-> [kind |-> "argument", ptr |-> args[i]]]
              \o [i \in 1..Len(res) |-> [kind |-> "result", ptr |-> res[i]]]
              \o [i \in 1..Len(attrs) |-> [kind |-> "attribute", ptr |-> attrs[i]]]
         /\ num_arguments = Len(args)
         /\ num_results = Len(res)
         /\ attrs_added = Len(attrs)
    /\ attribute_section = 0
    /\ violated = FALSE
    /\ last_call = "AddAttribute"
    /\ resets = 0
    /\ frame_status = "ok"
    /\ refcounts = [v \in 1..3 |-> 1]
    /\ raii_frames = <<>>
    /\ sync_log_results = FALSE
    /\ log_counter = <<0, 0>>
    /\ mu = 0
    /\ metadata_ostream = <<>>
    /\ log_threads = <<>>
    /\ ids = <<>>
    /\ served = <<0, 0>>

NextRAII ==
    \/ RAIIKernelFrame
    \/ RAIIKernelFrameCopy
    \/ RAIIKernelFrameMove
    \/ RAIIKernelFrameDestroy

SpecRAII == InitRAII /\ [][NextRAII]_vars

----------------------------------------------------------------------------
\* LoggingOpHandler (logging_op_handler.cc): threads run the closure that
\* MakeOp returns.  Each thread of log_threads is the record of
\*   part  where it is: "idle", in the Print call of the "dispatch" line, of
\*         the "inputs" block or of the "outputs" block, or before the
\*         "fallback" call,
\*   step  0 outside Print; in Print 1 with the lock held, 2 with the first
\*         half of the contents written, 3 with all of it written,
\*   id    its id_number.
\* log_counter_ is a 32 bit unsigned integer: it is kept as the pair of its
\* high and low 16 bits.  A chunk of the stream is what one write of the
\* unbuffered stream takes: half of the contents of a Print call.

MaxLogThreads == 2
MaxInvocations == 3

\* While the handler logs nothing else runs.
LoggingOnly ==
    UNCHANGED <<ndebug, pc, status, diags, executed, function_index, stitchvars,
                fnvars, items, secvars, attrvars, handlevars, regvars, bytevars,
                streamvars,
                async_value_or_attrs, num_arguments, num_results,
                attribute_section, attrs_added, violated, last_call, resets,
                frame_status, refcounts, raii_frames, sync_log_results, served>>

\* A faulty closure whose fetch_add leaves log_counter_ as it is.
FetchAddLost ==
    /\ Len(ids) < MaxInvocations
    /\ LoggingOnly
    /\ \E t \in DOMAIN log_threads :
         /\ log_threads[t].part = "idle"
         /\ log_threads' = [log_threads EXCEPT ![t].part = "dispatch",
                                               ![t].id = log_counter]
    /\ ids' = Append(ids, log_counter)
    /\ UNCHANGED <<log_counter, mu, metadata_ostream>>

\* auto id_number = log_counter_.fetch_add(1): one atomic step that returns
\* the counter and adds 1 to it, modulo 2^32.
FetchAdd ==
    /\ Len(ids) < MaxInvocations
    /\ LoggingOnly
    /\ \E t \in DOMAIN log_threads :
         /\ log_threads[t].part = "idle"
         /\ log_threads' = [log_threads EXCEPT ![t].part = "dispatch",
                                               ![t].id = log_counter]
    /\ ids' = Append(ids, log_counter)
    /\ log_counter' = IF log_counter[2] < 65535
                        THEN <<log_counter[1], log_counter[2] + 1>>
                        ELSE <<(log_counter[1] + 1) % 65536, 0>>
    /\ UNCHANGED <<mu, metadata_ostream>>

\* A faulty Print that does not wait for the mutex.
PrintLockUnguarded ==
    /\ LoggingOnly
    /\ \E t \in DOMAIN log_threads :
         /\ log_threads[t].part \in {"dispatch", "inputs", "outputs"}
         /\ log_threads[t].step = 0
         /\ mu' = t
         /\ log_threads' = [log_threads EXCEPT ![t].step = 1]
    /\ UNCHANGED <<log_counter, metadata_ostream, ids>>

\* Print: mutex_lock lock(mu_) gets the mutex when no thread holds it.
PrintLock ==
    /\ LoggingOnly
    /\ \E t \in DOMAIN log_threads :
         /\ log_threads[t].part \in {"dispatch", "inputs", "outputs"}
         /\ log_threads[t].step = 0
         /\ mu = 0
         /\ mu' = t
         /\ log_threads' = [log_threads EXCEPT ![t].step = 1]
    /\ UNCHANGED <<log_counter, metadata_ostream, ids>>

\* Print: *metadata_ostream_ << contents, one write at a time.
PrintWrite ==
    /\ LoggingOnly
    /\ \E t \in DOMAIN log_threads :
         /\ log_threads[t].step \in {1, 2}
         /\ metadata_ostream' =
              Append(metadata_ostream,
                     [thread |-> t, id |-> log_threads[t].id,
                      part |-> log_threads[t].part,
                      half |-> log_threads[t].step])
         /\ log_threads' = [log_threads EXCEPT ![t].step = @ + 1]
    /\ UNCHANGED <<log_counter, mu, ids>>

\* Print returns: the lock is released.  After the dispatch line the closure
\* prints the inputs, after the inputs it calls the fallback, after the
\* outputs it returns.
PrintUnlock ==
    /\ LoggingOnly
    /\ \E t \in DOMAIN log_threads :
         /\ log_threads[t].step = 3
         /\ mu' = 0
         /\ log_threads' =
              [log_threads EXCEPT
                 ![t].step = 0,
                 ![t].part = IF @ = "dispatch" THEN "inputs"
                             ELSE IF @ = "inputs" THEN "fallback"
                             ELSE "idle"]
    /\ UNCHANGED <<log_counter, metadata_ostream, ids>>

\* fallback_handle(invocation), and the test of sync_log_results_ and of
\* invocation.results.
FallbackHandle ==
    /\ LoggingOnly
    /\ \E t \in DOMAIN log_threads, results_empty \in BOOLEAN :
         /\ log_threads[t].part = "fallback"
         /\ log_threads' =
              [log_threads EXCEPT
                 ![t].part = IF sync_log_results /\ ~results_empty
                               THEN "outputs" ELSE "idle"]
    /\ UNCHANGED <<log_counter, mu, metadata_ostream, ids>>

\* A handler of either kind that no thread is in, new or after 2^32 - 2
\* invocations.
InitLogging ==
    /\ AtPhase("ReadHeader")
    /\ sections = NoSections
    /\ section = NoSection
    /\ nread = 0
    /\ TablesIdle
    /\ StreamsIdle
    /\ FreshFrame
    /\ refcounts = <<>>
    /\ raii_frames = <<>>
    /\ sync_log_results \in BOOLEAN
    /\ served \in {<<0, 0>>, <<65535, 65534>>}
    /\ log_counter = served
    /\ mu = 0
    /\ metadata_ostream = <<>>
    /\ log_threads = [t \in 1..MaxLogThreads |->
                        [part |-> "idle", step |-> 0, id |-> <<0, 0>>]]
    /\ ids = <<>>

NextLogging ==
    \/ FetchAdd
    \/ PrintLock
    \/ PrintWrite
    \/ PrintUnlock
    \/ FallbackHandle

SpecLogging == InitLogging /\ [][NextLogging]_vars

----------------------------------------------------------------------------
\* The RegisterTypes stream that ReadFunctions hands to every function, and
\* the cursor entry_offset over the body of a kernel entry.  Registers, names
\* and callees are left to the specifications above: a lookup that can fail
\* fails or not.

MaxStreamFunctions == 2
MaxTypeArrays == 2
MaxStreamKernels == 1
MaxEntryResults == 2

\* BEFKernel::GetKernelEntries(entry_offset, size) for a run of fields, each
\* followed by entry_offset += size: the range each field takes of the body,
\* and where the cursor ends.
RECURSIVE GetKernelEntries(_, _, _, _)
GetKernelEntries(sizes, k, offset, acc) ==
    IF k > Len(sizes) THEN [fields |-> acc, entry_offset |-> offset]
    ELSE GetKernelEntries(sizes, k + 1, offset + sizes[k].size,
                          Append(acc, [field |-> sizes[k].field, from |-> offset,
                                       size |-> sizes[k].size]))

\* A faulty ReadFunctions that puts register_types_reader at the array with
\* the number of the function, native functions counted; C22 does not hold of
\* it.
ReadFunctionPositional ==
    /\ pc = "ReadFunctions"
    /\ NextFunction <= Len(function_index)
    /\ ~function_index[NextFunction].native
    /\ LET more == NextFunction <= Len(register_types)
           indices == IF more THEN register_types[NextFunction] ELSE <<>>
           start == IF function_index[NextFunction].nargs > 0 THEN 1 ELSE 0
       IN  /\ register_types_reader' = NextFunction
           /\ reg_type_indices' = indices
           /\ function_reg_types' = function_reg_types \cup {<<NextFunction, indices>>}
           /\ \E nk \in 0..MaxStreamKernels : num_kernels' = start + nk
           /\ ki' = start + 1
           /\ pc' = IF start = 1 THEN "ReadArgumentsPseudoKernel" ELSE "ReadKernel"
           /\ UNCHANGED <<status, diags, executed>>
    /\ UNCHANGED <<ndebug, function_index, stitchvars, register_table, beyond,
                   result_regs, block, kernel, oob, items, secvars, attrvars,
                   handlevars, register_info, bytevars, hostvars, register_types,
                   entry, entry_fields, entry_offset, offset_arrays>>

\* ReadFunctions, loop body for a BEF function, up to the call of ReadKernels,
\* with the reader of the RegisterTypes section that ReadFunctions made once:
\* ReadRegisterTable takes the next array of it, or no types when none is
\* left.  uses is how the register-uses array of the function compares to it
\* in length.
ReadFunctionStreamed ==
    /\ pc = "ReadFunctions"
    /\ NextFunction <= Len(function_index)
    /\ ~function_index[NextFunction].native
    /\ LET more == register_types_reader < Len(register_types)
           indices == IF more THEN register_types[register_types_reader + 1]
                      ELSE <<>>
           passed == register_types_reader + (IF more THEN 1 ELSE 0)
           start == IF function_index[NextFunction].nargs > 0 THEN 1 ELSE 0
       IN  \/ /\ FailFunctions(<<"Failed to read function location">>)
              /\ UNCHANGED <<register_types_reader, reg_type_indices,
                             function_reg_types, num_kernels, ki>>
           \/ /\ \E msg \in ReadFunctionFailures \ {"Failed to read function location",
                                                    "Failed to read kernels."} :
                    FailFunctions(<<msg>>)
              /\ register_types_reader' = passed
              /\ UNCHANGED <<reg_type_indices, function_reg_types, num_kernels, ki>>
           \/ \E uses \in {"same", "more", "fewer"} :
                IF indices # <<>> /\ (uses = "more" \/ (uses = "fewer" /\ ~ndebug))
                  THEN /\ Dies("abort")
                       /\ register_types_reader' = passed
                       /\ UNCHANGED <<reg_type_indices, function_reg_types,
                                      num_kernels, ki>>
                  ELSE /\ register_types_reader' = passed
                       /\ reg_type_indices' = indices
                       /\ function_reg_types' =
                            function_reg_types \cup {<<NextFunction, indices>>}
                       /\ \E nk \in 0..MaxStreamKernels : num_kernels' = start + nk
                       /\ ki' = start + 1
                       /\ pc' = IF start = 1 THEN "ReadArgumentsPseudoKernel"
                                             ELSE "ReadKernel"
                       /\ UNCHANGED <<status, diags, executed>>
    /\ UNCHANGED <<ndebug, function_index, stitchvars, register_table, beyond,
                   result_regs, block, kernel, oob, items, secvars, attrvars,
                   handlevars, register_info, bytevars, hostvars, register_types,
                   entry, entry_fields, entry_offset, offset_arrays>>

\* ReadArgumentsPseudoKernel: the results are taken at entry_offset 0 and the
\* used-bys of every result after them.  That the header has no arguments,
\* attributes and functions, and as many results as the block has
\* arguments, is asserted only; with more results entry_arguments[i] is
\* indexed out of range.
ReadArgumentsPseudoKernelEntries ==
    /\ pc = "ReadArgumentsPseudoKernel"
    /\ \E na \in 0..1, nt \in 0..1, nf \in 0..1,
          used \in SeqsUpTo(0..1, MaxEntryResults) :
         LET n == function_index[NextFunction].nargs
             header == [pseudo |-> TRUE, num_arguments |-> na,
                        num_attributes |-> nt, num_functions |-> nf,
                        used_bys |-> used, complete |-> TRUE]
             results == <<[field |-> "results", size |-> Len(used)]>>
             all == GetKernelEntries(
                      results \o [i \in 1..Len(used) |->
                                    [field |-> "used_by", size |-> used[i]]],
                      1, 0, <<>>)
         IN  IF ~ndebug /\ ~(na = 0 /\ nt = 0 /\ nf = 0 /\ Len(used) = n)
               THEN /\ Dies("abort")
                    /\ UNCHANGED <<entry, entry_fields, entry_offset>>
               ELSE \/ /\ Len(used) > n
                       /\ Dies("crash")
                       /\ UNCHANGED <<entry, entry_fields, entry_offset>>
                    \/ /\ Len(used) > 0
                       /\ FailFunctions(<<"Redefinition of registers",
                                          "Failed to read pseudo.",
                                          "Failed to read kernels.">>)
                       /\ entry' = [header EXCEPT !.complete = FALSE]
                       /\ entry_fields' = GetKernelEntries(results, 1, 0, <<>>).fields
                       /\ entry_offset' = 0
                    \/ /\ entry' = header
                       /\ entry_fields' = all.fields
                       /\ entry_offset' = all.entry_offset
                       /\ pc' = "ReadKernel"
                       /\ UNCHANGED <<status, diags, executed>>
    /\ UNCHANGED <<ndebug, function_index, stitchvars, fnvars, items, secvars,
                   attrvars, handlevars, regvars, bytevars, hostvars,
                   register_types, register_types_reader, function_reg_types,
                   offset_arrays>>

\* ReadKernel: entry_offset starts at 0 and passes the arguments, the
\* attributes, the functions, the results and the used-bys of each result.
\* ReadKernel returns early after field number stop when an argument register
\* is undefined (1), a callee is unknown (3) or a result register is defined
\* already (4 and later); the statement that moves entry_offset past a field
\* comes after the loop over it, but for the results comes before.
ReadKernelEntries ==
    /\ pc = "ReadKernel"
    /\ ki <= num_kernels
    /\ \E na \in 0..1, nt \in 0..1, nf \in 0..1,
          used \in SeqsUpTo(0..1, MaxEntryResults) :
         LET header == [pseudo |-> FALSE, num_arguments |-> na,
                        num_attributes |-> nt, num_functions |-> nf,
                        used_bys |-> used, complete |-> TRUE]
             sizes == <<[field |-> "arguments", size |-> na],
                        [field |-> "attributes", size |-> nt],
                        [field |-> "functions", size |-> nf],
                        [field |-> "results", size |-> Len(used)]>>
                      \o [i \in 1..Len(used) |->
                            [field |-> "used_by", size |-> used[i]]]
         IN  \/ \E stop \in ({1 : x \in 1..na} \cup {3 : x \in 1..nf}
                             \cup 4..(3 + Len(used))) :
                  LET some == GetKernelEntries(SubSeq(sizes, 1, stop), 1, 0, <<>>)
                  IN  /\ FailFunctions(
                           <<CASE stop = 1 -> "Using undefined registers."
                               [] stop = 3 -> "Unknown callee."
                               [] OTHER -> "Redefinition of registers",
                             "Failed to read kernels.">>)
                      /\ entry' = [header EXCEPT !.complete = FALSE]
                      /\ entry_fields' = some.fields
                      /\ entry_offset' = IF stop < 4 THEN Last(some.fields).from
                                         ELSE some.entry_offset
                      /\ UNCHANGED ki
             \/ LET all == GetKernelEntries(sizes, 1, 0, <<>>)
                IN  /\ entry' = header
                    /\ entry_fields' = all.fields
                    /\ entry_offset' = all.entry_offset
                    /\ ki' = ki + 1
                    /\ UNCHANGED <<pc, status, diags, executed>>
    /\ UNCHANGED <<ndebug, function_index, stitchvars, register_table, beyond,
                   num_kernels, result_regs, block, kernel, oob, items, secvars,
                   attrvars, handlevars, regvars, bytevars, hostvars,
                   register_types, register_types_reader, function_reg_types,
                   offset_arrays>>

\* ReadFunctions is about to run on a function index of native and BEF
\* functions; register_types_reader is past the count of the section.
InitStreams ==
    /\ ndebug \in BOOLEAN
    /\ pc = "ReadFunctions"
    /\ status = "running"
    /\ diags = <<>>
    /\ executed = Before("ReadFunctions", 1)
    /\ function_index \in
         SeqsUpTo([named : {TRUE}, native : {FALSE}, nargs : 0..1, nres : {0}]
                  \cup [named : {TRUE}, native : {TRUE}, nargs : {0}, nres : {0}],
                  MaxStreamFunctions)
    /\ items = Len(function_index)
    /\ regions = <<>>
    /\ bodies = <<>>
    /\ region_references = {}
    /\ visited = {}
    /\ module = <<>>
    /\ moves = <<>>
    /\ register_table = <<>>
    /\ beyond = Unread
    /\ num_kernels = 0
    /\ ki = 1
    /\ result_regs = <<>>
    /\ block = <<>>
    /\ kernel = NoKernel
    /\ oob = FALSE
    /\ sections = NoSections
    /\ section = NoSection
    /\ nread = 0
    /\ TablesIdle
    /\ HostIdle
    /\ register_types \in SeqsUpTo({<<0>>, <<1>>}, MaxTypeArrays)
    /\ register_types_reader = 0
    /\ function_reg_types = {}
    /\ entry = [pseudo |-> FALSE, num_arguments |-> 0, num_attributes |-> 0,
                num_functions |-> 0, used_bys |-> <<>>, complete |-> FALSE]
    /\ entry_fields = <<>>
    /\ entry_offset = 0
    /\ offset_arrays = [o \in AttrOffsets |-> <<>>]

NextStreams ==
    \/ ReadNativeFunction
    \/ ReadFunctionStreamed
    \/ ReadArgumentsPseudoKernelEntries
    \/ ReadKernelEntries
    \/ ReadReturn
    \/ ReadFunctionsDone

SpecStreams == InitStreams /\ [][NextStreams]_vars

----------------------------------------------------------------------------
\* Offset-array attributes.  The attribute of an offset-array is "array" in
\* attributes and its elements are in offset_arrays; the bytes of the pool
\* are taken to hold the descriptors the record stands for.

MaxArrayLen == 1

\* A faulty ReadOffsetArrayAttribute that looks no element up; C26 does not
\* hold of it.
ReadOffsetArrayAttributeNull(m, descriptors) ==
    [j \in 1..Len(descriptors) |-> "null"]

\* ReadOffsetArrayAttribute: element j is bef_file_.GetAttribute of the offset
\* of descriptor j, looked up in the map as it is when the array is read.
ReadOffsetArrayAttribute(m, descriptors) ==
    [j \in 1..Len(descriptors) |-> GetAttribute(m, descriptors[j])]

\* The loop of ReadAttributes over the records from k on: ReadAttribute runs
\* on the record and insert keeps the attribute unless the offset is a key.
RECURSIVE InsertOffsetArrays(_, _, _, _)
InsertOffsetArrays(recs, k, m, arrays) ==
    IF k > Len(recs) THEN [attributes |-> m, offset_arrays |-> arrays]
    ELSE IF m[recs[k].offset] # "absent"
      THEN InsertOffsetArrays(recs, k + 1, m, arrays)
    ELSE InsertOffsetArrays(recs, k + 1,
           [m EXCEPT ![recs[k].offset] = recs[k].attr],
           IF recs[k].attr = "array"
             THEN [arrays EXCEPT ![recs[k].offset] =
                     ReadOffsetArrayAttribute(m, recs[k].elements)]
             ELSE arrays)

\* ConvertBEFToMLIR, the ReadAttributes statement, on an AttributeTypes
\* section whose records are of plain attributes and of offset-arrays.
ReadAttributesArrays ==
    /\ pc = "ReadAttributes"
    /\ IF sections[kAttributeTypes] = "empty"
         THEN /\ WarnPhase("ReadAttributes", TRUE, "ReadKernels",
                           "Invalid Attributes/AttributeTypes section.")
              /\ UNCHANGED <<attribute_types, attributes, offset_arrays>>
         ELSE \E ok \in BOOLEAN, n \in 0..MaxAttrRecords,
                 recs \in SeqsUpTo(
                   [offset : AttrOffsets, attr : {"null", "a", "b"},
                    elements : {<<>>}]
                   \cup [offset : AttrOffsets, attr : {"array"},
                         elements : SeqsUpTo(AttrOffsets, MaxArrayLen)],
                   MaxAttrRecords) :
                LET at == [count_ok |-> ok, num |-> n, recs |-> recs]
                    read == InsertOffsetArrays(recs, 1, attributes, offset_arrays)
                IN  /\ Len(recs) <= n
                    /\ ok \/ n = 0
                    /\ WarnPhase("ReadAttributes", ~Truncated(at), "ReadKernels",
                                 "Invalid Attributes/AttributeTypes section.")
                    /\ attribute_types' = at
                    /\ attributes' = read.attributes
                    /\ offset_arrays' = read.offset_arrays
    /\ UNCHANGED <<ndebug, function_index, stitchvars, fnvars, items, secvars,
                   attr_refs, op_attributes, handlevars, regvars, bytevars,
                   hostvars, register_types, register_types_reader,
                   function_reg_types, entry, entry_fields, entry_offset>>

NextArrays == ReadAttributesArrays \/ ReadKernels

SpecArrays == InitAttributes /\ [][NextArrays]_vars

----------------------------------------------------------------------------
\* Properties.

Reported(msg) == \E i \in 1..Len(diags) : diags[i] = msg

\* Register r of table t exists and has no produced value.
Undefined(t, r) == r <= Len(t) /\ t[r].value = Null

\* Some index of rs names an undefined register of t.
UsesUndefined(rs, t) == \E k \in 1..Len(rs) : Undefined(t, rs[k])

\* The first index of rs that names an undefined register of t comes after
\* in-range indices only.
UsesUndefinedFirst(rs, t) ==
    \E k \in 1..Len(rs) : Undefined(t, rs[k]) /\ \A j \in 1..(k - 1) : rs[j] <= Len(t)

\* The step reads an ordinary kernel entry (kernel' is the entry read).
KernelStep == pc = "ReadKernel" /\ ki <= num_kernels /\ kernel'.hdr = "ok"
\* The step builds the return operation.
ReturnStep == pc = "ReadKernel" /\ ki > num_kernels

\* C1: use before definition is fatal.  A kernel with an argument register
\* that has no produced value, or a return that reads a result register that
\* has none, fails the decode: no module is returned (nullptr after the error
\* was emitted, or the process dies on an earlier assert), the operation is
\* not appended to the block and the region is not kept.
C1_UseBeforeDefinitionFatal ==
    [][/\ (KernelStep /\ UsesUndefined(kernel'.args, register_table))
            => /\ status' \in {"null", "abort"}
               /\ block' = block
               /\ UsesUndefinedFirst(kernel'.args, register_table)
                    => status' = "null" /\ Last(diags') = "Invalid Functions section."
                       /\ \E i \in 1..Len(diags') :
                            diags'[i] = "Using undefined registers."
       /\ (ReturnStep /\ UsesUndefined(result_regs, register_table))
            => /\ status' \in {"null", "abort"}
               /\ regions' = regions
               /\ UsesUndefinedFirst(result_regs, register_table)
                    => status' = "null"
                       /\ \E i \in 1..Len(diags') :
                            diags'[i] = "Using an undefined register in return op."
       /\ status \in {"null", "abort"} => status' = status]_vars

\* A kernel whose argument register was undefined has failed the decode.
C1_Witness ==
    /\ status = "null"
    /\ Reported("Using undefined registers.")
    /\ kernel.hdr = "ok"
    /\ UsesUndefined(kernel.args, register_table)
    /\ block # <<>>

\* Some index of rs is past the end of table t.
HasOutOfRange(rs, t) == \E i \in 1..Len(rs) : rs[i] > Len(t)

\* Entry k defines a register of t a second time: one of its result
\* registers has a value already, or is listed twice.
Redefines(k, t) ==
    \E i \in 1..Len(k.results) :
        /\ k.results[i] <= Len(t)
        /\ \/ t[k.results[i]].value # Null
           \/ \E j \in 1..(i - 1) : k.results[j] = k.results[i]

\* C2: each register is defined at most once per function decode.  While a
\* function is decoded a register that has a value keeps it, and a kernel
\* entry or arguments pseudo kernel that defines a register a second time
\* fails the decode.
C2_DefinedOnce ==
    [][/\ \A r \in 1..Len(register_table) :
            (register_table[r].value # Null /\ Len(register_table') = Len(register_table))
              => register_table'[r].value = register_table[r].value
       /\ (KernelStep /\ Redefines(kernel', register_table))
            => status' \in {"null", "abort"} /\ block' = block
       /\ (pc = "ReadArgumentsPseudoKernel" /\ Redefines(kernel', register_table))
            => status' \in {"null", "abort"}
       /\ ((KernelStep \/ pc = "ReadArgumentsPseudoKernel")
           /\ Redefines(kernel', register_table)
           /\ ~HasOutOfRange(kernel'.args \o kernel'.results, register_table)
           /\ ~UsesUndefined(kernel'.args, register_table)
           /\ (\A i \in 1..Len(kernel'.funcs) : IsFunction(kernel'.funcs[i])))
            => /\ status' = "null"
               /\ \E i \in 1..Len(diags') : diags'[i] = "Redefinition of registers"]_vars

\* A kernel that redefines a register that holds a block argument has failed
\* the decode, and the register still holds the block argument.
C2_Witness ==
    /\ status = "null"
    /\ Reported("Redefinition of registers")
    /\ kernel.hdr = "ok"
    /\ \E i \in 1..Len(kernel.results) :
         /\ kernel.results[i] <= Len(register_table)
         /\ register_table[kernel.results[i]].value = Arg(1)

\* Value v is a block argument of function f or a result of an operation
\* that comes before position p in block ops.
DefinedBefore(v, f, ops, p) ==
    \/ v[1] = "arg" /\ v[2] \in 1..function_index[f].nargs
    \/ v[1] = "res" /\ v[2] \in 1..(p - 1) /\ v[3] \in 1..ops[v[2]].nresults

\* C3 (as claimed): in every decoded block every operand of every operation,
\* the return included, is a block argument or a result of an earlier
\* operation of the block.
C3_OperandsDefinedBefore ==
    \A f \in 1..Len(bodies) : \A p \in 1..Len(bodies[f]) :
        \A k \in 1..Len(bodies[f][p].operands) :
            DefinedBefore(bodies[f][p].operands[k], f, bodies[f], p)

\* C4 (as claimed): an out-of-range register index, as a kernel argument, as
\* a result of a kernel or of the arguments pseudo kernel, or as a result
\* register of the function, is rejected with an error (nullptr is returned)
\* and the register table is never indexed outside its bounds.
C4_OutOfRangeRejected ==
    [][/\ (KernelStep /\ HasOutOfRange(kernel'.args \o kernel'.results, register_table))
            => status' = "null"
       /\ (pc = "ReadArgumentsPseudoKernel"
           /\ HasOutOfRange(kernel'.results, register_table))
            => status' = "null"
       /\ (ReturnStep /\ HasOutOfRange(result_regs, register_table))
            => status' = "null"
       /\ ~oob']_vars

\* C5 (as claimed): each unnamed region is moved exactly once: no takeBody
\* call of pass 2 moves from a slot that is empty already, no function is the
\* source of two calls, and once pass 2 is over an operation with K region
\* references has consumed K regions.
C5_MovedExactlyOnce ==
    /\ \A i \in 1..Len(moves) :
         /\ moves[i].src # 0
         /\ \A j \in 1..(i - 1) : moves[j].from # moves[i].from
    /\ \A ref \in visited :
         Cardinality({i \in 1..Len(moves) :
                        moves[i].fn = ref.fn /\ moves[i].pos = ref.pos /\ moves[i].src # 0})
           = Len(ref.fns)

\* ResolveFunctions has run its final check.
Checked ==
    /\ pc = "done"
    /\ Last(executed).phase = "ResolveFunctions"
    /\ status \in {"null", "module"}

\* C6: a region that is still owned by the decoder after pass 2 makes
\* ResolveFunctions report an error and ConvertBEFToMLIR return no module;
\* whenever a module is returned every entry of the region list is empty.
C6_LeftoverRegionFatal ==
    /\ status = "module" => \A f \in 1..Len(regions) : regions[f] = 0
    /\ Checked =>
         /\ Len(regions) = Len(function_index)
         /\ (\E f \in 1..Len(regions) : regions[f] # 0)
              => /\ status = "null"
                 /\ Reported("Failed to resolve functions.")
                 /\ Last(executed).result = "fail"

\* An unnamed BEF function that no operation referenced has failed the decode.
C6_Witness ==
    /\ Checked
    /\ status = "null"
    /\ \E f \in 1..Len(regions) :
         /\ regions[f] = f
         /\ ~function_index[f].named
         /\ \A ref \in region_references : \A i \in 1..Len(ref.fns) : ref.fns[i] # f

\* C7: nested regions keep reference order.  Once pass 2 has resolved an
\* operation whose kernel referenced f_1, ..., f_n, region i of the operation
\* holds the body decoded for f_i and the decoder's slot of f_i is empty.
C7_RegionsInReferenceOrder ==
    \A ref \in visited : \A i \in 1..Len(ref.fns) :
        /\ Len(bodies[ref.fn][ref.pos].regions) = Len(ref.fns)
        /\ bodies[ref.fn][ref.pos].regions[i] = ref.fns[i]
        /\ regions[ref.fns[i]] = 0

\* A module was returned for a named function with one kernel that
\* references two different unnamed functions.
C7_Witness ==
    /\ status = "module"
    /\ \E ref \in visited :
         /\ Len(ref.fns) = 2
         /\ ref.fns[1] # ref.fns[2]
         /\ ref.fn \notin {ref.fns[1], ref.fns[2]}
         /\ function_index[ref.fn].named

\* The unnamed functions among fns, in order.
UnnamedOf(fns) == SelectSeq(fns, LAMBDA f : ~function_index[f].named)

\* C8 (as claimed): a named reference reserves no region slot and an unnamed
\* one reserves exactly one; pass 2 moves regions of unnamed functions only,
\* and slot j of an operation receives the region of the j-th unnamed
\* function its kernel references.
C8_OnlyUnnamedRegionsMoved ==
    /\ \A ref \in region_references :
         ref.fn <= Len(bodies) =>
           Len(bodies[ref.fn][ref.pos].regions) = Len(UnnamedOf(ref.fns))
    /\ \A i \in 1..Len(moves) :
         /\ ~function_index[moves[i].from].named
         /\ \E ref \in region_references :
              /\ ref.fn = moves[i].fn /\ ref.pos = moves[i].pos
              /\ moves[i].slot <= Len(UnnamedOf(ref.fns))
              /\ UnnamedOf(ref.fns)[moves[i].slot] = moves[i].from

\* Pass 1 of ResolveFunctions is over and the converter is alive.
TopLevelResolved == pc = "ResolveNested" \/ status = "module"

\* C9: the functions of the module are the named entries of the function
\* index in index order; a native entry is a function without body that
\* carries hex.native, a BEF entry carries the region decoded for it, and an
\* unnamed entry is no function of the module.
C9_TopLevelInIndexOrder ==
    TopLevelResolved =>
      /\ \A i, j \in 1..Len(module) : i < j => module[i].fn < module[j].fn
      /\ {module[i].fn : i \in 1..Len(module)}
           = {f \in 1..Len(function_index) : function_index[f].named}
      /\ \A i \in 1..Len(module) :
           IF function_index[module[i].fn].native
             THEN module[i].native /\ module[i].body = 0
             ELSE ~module[i].native /\ module[i].body = module[i].fn

\* A module was returned that holds a native function after a BEF function,
\* while the function index holds an unnamed entry between them.
C9_Witness ==
    /\ status = "module"
    /\ Len(module) = 2
    /\ ~module[1].native
    /\ module[2].native
    /\ module[2].fn = 3

\* The phases started are the first phases of ConvertBEFToMLIR, in order.
PhasesForward ==
    /\ Len(executed) <= Len(PhaseOrder)
    /\ \A k \in 1..Len(executed) : executed[k].phase = PhaseOrder[k]

\* C10 (as claimed): the phases run strictly forward, the first failure of a
\* phase ends the decode without a module, and a module is returned only
\* after every phase has succeeded.
C10_EveryPhaseSucceeded ==
    /\ PhasesForward
    /\ \A k \in 1..Len(executed) :
         executed[k].result = "fail" => k = Len(executed) /\ status = "null"
    /\ status = "module" =>
         /\ Len(executed) = Len(PhaseOrder)
         /\ \A k \in 1..Len(executed) : executed[k].result = "ok"

\* C10 (amended): the phases run strictly forward; the first failure of a
\* phase other than ReadAttributes ends the decode without a module, and no
\* later phase starts; a failed ReadAttributes only warns; a module is
\* returned only after every phase has run and every phase other than
\* ReadAttributes has succeeded.
C10_ForwardExceptAttributes ==
    /\ PhasesForward
    /\ \A k \in 1..Len(executed) :
         /\ (executed[k].result = "fail" /\ executed[k].phase # "ReadAttributes")
              => k = Len(executed) /\ status = "null" /\ pc = "done"
         /\ k < Len(executed)
              => \/ executed[k].result = "ok"
                 \/ executed[k].phase = "ReadAttributes" /\ executed[k].result = "fail"
    /\ status = "null" =>
         Last(executed).result = "fail" /\ Last(executed).phase # "ReadAttributes"
    /\ status = "module" =>
         /\ Len(executed) = Len(PhaseOrder)
         /\ \A k \in 1..Len(executed) :
              executed[k].result = "ok" \/ executed[k].phase = "ReadAttributes"
    /\ function_index # <<>> => Len(executed) >= 10

\* A module was returned although ReadAttributes failed.
C10_Witness ==
    /\ status = "module"
    /\ executed[8].phase = "ReadAttributes"
    /\ executed[8].result = "fail"
    /\ Reported("Invalid Attributes/AttributeTypes section.")

\* C11 (as claimed): a well-formed section whose id byte is none of the known
\* section ids is skipped or kept: the splitter goes on with the following
\* sections, the payloads kept for the known ids are untouched, and the
\* decode neither fails nor raises.
C11_UnknownSectionTolerated ==
    [][(pc = "ReadSections" /\ nread' = nread + 1
        /\ section'.ok /\ section'.id >= kNumSectionIDs)
         => /\ status' = "running"
            /\ pc' = "ReadSections"
            /\ sections' = sections]_vars

\* The number of warnings about missing optional sections.
MissingWarnings ==
    Cardinality({i \in 1..Len(diags) :
        diags[i] = "Missing AttributeTypes, AttributeNames or RegisterTypes sections."})

AttributesRead == Len(executed) >= 9

\* C13 (as claimed): when the AttributeTypes section is absent the decoder
\* proceeds, and attribute i of every kernel is the 32-bit integer
\* 0xdeadbeef named attr<i>.
C13_PlaceholderNamedAttrI ==
    sections[kAttributeTypes] = "empty" =>
      /\ AttributesRead => executed[8].result = "ok"
      /\ \A i \in 1..Len(op_attributes) :
           op_attributes[i] = [name |-> <<"attr", i - 1>>, value |-> DummyAttribute]

\* C13 (amended): when the AttributeTypes section is absent ReadAttributes
\* succeeds without a warning and leaves the attribute table empty, and
\* attribute i of every kernel has the value 32-bit integer 0xdeadbeef; its
\* name is attr<i> when no name can be read for it from the AttributeNames
\* section, and the name read otherwise.
C13_PlaceholderValue ==
    sections[kAttributeTypes] = "empty" =>
      /\ AttributesRead => executed[8].result = "ok"
      /\ ~Reported("Invalid Attributes/AttributeTypes section.")
      /\ \A o \in AttrOffsets : attributes[o] = "absent"
      /\ Len(op_attributes) = Len(attr_refs)
      /\ \A i \in 1..Len(op_attributes) :
           /\ op_attributes[i].value = "i32 0xdeadbeef"
           /\ op_attributes[i].name =
                IF attr_refs[i].name = "none" THEN <<"attr", i - 1>>
                ELSE <<"string", attr_refs[i].name>>

\* Without AttributeTypes a kernel with two attributes was decoded: no name
\* could be read for the first, the second has a name.
C13_Witness ==
    /\ sections[kAttributeTypes] = "empty"
    /\ pc = "ReadFunctions"
    /\ Len(op_attributes) = 2
    /\ attr_refs[1].name = "none"
    /\ attr_refs[2].name = "x"
    /\ op_attributes[2].value = DummyAttribute

StringStarts == {strings[o] : o \in DOMAIN strings}

\* C17 (as claimed): a string handle that is not the offset of the first byte
\* of a string is a fatal error (an error is emitted and nullptr returned),
\* for kernel names, type names and function names alike: the decode never
\* ends otherwise, and every name kept is a string of the Strings section.
C17_BadStringHandleFatal ==
    /\ status \in {"running", "null"}
    /\ \A i \in 1..Len(kernels) : kernels[i] \in StringStarts
    /\ \A i \in 1..Len(signatures) : signatures[i].name \in StringStarts

\* The arguments pseudo kernel binds a block argument to a register in range
\* whose declared type is neither none nor the type of the argument.
BindsMismatched(results) ==
    \E i \in 1..Len(results) :
       /\ results[i] <= Len(register_info)
       /\ register_info[results[i]].type # NoneType
       /\ register_info[results[i]].type # signatures[NextFunction].argument_types[i]

\* C15 (as claimed): when the type of a function argument differs from the
\* declared type, other than none, of the register the arguments pseudo
\* kernel binds it to, the decode fails: an error is emitted and nullptr is
\* returned.
C15_ArgumentTypeMismatchFatal ==
    [][(pc = "ReadArgumentsPseudoKernel" /\ BindsMismatched(kernel'.results))
         => /\ status' = "null"
            /\ pc' = "done"
            /\ Len(diags') > Len(diags)]_vars

\* C18 (as claimed): a type handle of a register-types table that is out of
\* range or names a Types entry that did not parse makes the decode fail: a
\* register table built from such a handle exists only in a failed decode.
C18_BadRegisterTypeHandleFails ==
    (\E r \in 1..Len(register_info) :
        /\ r <= Len(reg_type_indices)
        /\ GetType(types, reg_type_indices[r]) = NullType)
      => status = "null"

\* The operand positions of the operations of the block, and of the return
\* operation to come, that refer to register r.
UsesOf(r) ==
    UNION {{<<p, k>> : k \in {k \in 1..Len(block[p].operands) :
                                block[p].operands[k] = register_table[r].value}} :
             p \in 1..Len(block)}
    \cup {<<0, k>> : k \in {k \in 1..Len(result_regs) : result_regs[k] = r}}

UseCountMismatch ==
    \E r \in 1..Len(register_info) :
       /\ r <= Len(register_table)
       /\ Cardinality(UsesOf(r)) # register_info[r].num_uses

\* C20 (as claimed): a function whose decode ends well although the declared
\* use count of a register differs from the number of operand positions that
\* refer to it gets a warning.
C20_UseCountMismatchWarned ==
    [][(ReturnStep /\ pc' = "ReadFunctions" /\ UseCountMismatch)
         => Len(diags') > Len(diags)]_vars

\* C16 (as claimed): no step reads a byte outside the Attributes section: a
\* length prefix that runs before the start of the section, or a length that
\* runs past its end, makes the decode fail with an error instead.
C16_NoReadOutsideSection ==
    /\ ~length_read.outside
    /\ ~string_attr.outside
    /\ status \in {"running", "null"}

\* Byte k of the length prefix of the attribute at attr_offset: the byte at
\* offset attr_offset - k of the section.
PrefixByte(k) == attr_pool[attr_offset - k + 1]

\* The prefix has n bytes: the first n - 1 have the high bit, byte n has not.
PrefixEndsAt(n) ==
    /\ PrefixByte(n) < 128
    /\ \A k \in 1..(n - 1) : PrefixByte(k) >= 128

\* The attribute has a length prefix inside the section.
HasPrefix ==
    /\ attr_offset \in 1..Len(attr_pool)
    /\ \E n \in 1..attr_offset : PrefixEndsAt(n)

PrefixLen == CHOOSE n \in 1..attr_offset : PrefixEndsAt(n)

RECURSIVE Pow128(_)
Pow128(e) == IF e = 0 THEN 1 ELSE 128 * Pow128(e - 1)

\* The low 7 bits of the prefix bytes k..n as one number, the last byte (the
\* lowest address) the most significant.
RECURSIVE LastByteHighest(_, _)
LastByteHighest(k, n) ==
    IF k > n THEN 0
    ELSE (PrefixByte(k) % 128) * Pow128(k - 1) + LastByteHighest(k + 1, n)

\* The same, the first byte (at offset - 1) the most significant.
RECURSIVE FirstByteHighest(_, _)
FirstByteHighest(k, n) ==
    IF k > n THEN 0
    ELSE (PrefixByte(k) % 128) * Pow128(n - k) + FirstByteHighest(k + 1, n)

\* C19 (as claimed): the final byte of the prefix (high bit 0, lowest
\* address) holds the most significant bits of the length, the byte at
\* offset - 1 the least significant.
C19_FinalByteMostSignificant ==
    (length_read.st = "ok" /\ HasPrefix) =>
      length_read.value = LastByteHighest(1, PrefixLen)

\* C19 (amended): ReadLength reads the bytes at offset-1, offset-2, ... while
\* the high bit is 1, each byte gives its low 7 bits, and the byte at
\* offset - 1 holds the most significant bits: the final byte (high bit 0,
\* lowest address) holds the least significant 7 bits.  For a one-byte
\* prefix b < 128 the length is b.  No byte outside the prefix is read.
C19_FinalByteLeastSignificant ==
    (length_read.st = "ok" /\ HasPrefix) =>
      /\ length_read.value = FirstByteHighest(1, PrefixLen)
      /\ PrefixLen = 1 => length_read.value = PrefixByte(1)
      /\ ~length_read.outside

\* ReadLength has read the three-byte prefix 129, 130, 1 (by falling
\* address): 1 * 128^2 + 2 * 128 + 1.
C19_Witness ==
    /\ attr_pool = <<1, 130, 129>>
    /\ attr_offset = 3
    /\ length_read = [st |-> "ok", value |-> 16641, outside |-> FALSE]


\* The calls so far since construction or the last Reset came in the order
\* AddArg*, SetNumResults, AddAttribute*, and no assert stopped the program.
Conforming == frame_status = "ok" /\ ~violated

\* The number of result slots: none before SetNumResults.
ResultCount == IF num_results = -1 THEN 0 ELSE num_results

\* async_value_or_attrs_ is [arguments | results | attributes].
LaidOut ==
    /\ Len(async_value_or_attrs) = num_arguments + ResultCount + attrs_added
    /\ \A i \in 1..Len(async_value_or_attrs) :
         async_value_or_attrs[i].kind =
           IF i <= num_arguments THEN "argument"
           ELSE IF i <= num_arguments + ResultCount THEN "result"
           ELSE "attribute"
    /\ (num_results = -1 => attrs_added = 0)

\* The call of this step is out of order.
OutOfOrder ==
    \/ last_call' = "AddArg" /\ num_results # -1
    \/ last_call' = "AddAttribute" /\ num_results = -1
    \/ last_call' = "SetNumResults" /\ num_results # -1

\* The step is a call of Reset.
ResetStep == last_call' = "Reset" /\ resets' = resets + 1

C27_NumAttributesCountsAddAttribute ==
    Conforming => GetNumAttributes = attrs_added


\* The live RAIIKernelFrames that have not been moved from and hold v.
Holders(v) ==
    {i \in DOMAIN raii_frames :
       /\ raii_frames[i].alive
       /\ raii_frames[i].size # 0
       /\ \E k \in DOMAIN raii_frames[i].values : raii_frames[i].values[k] = v}

\* C28: over any sequence of constructing, copying, moving and destroying
\* RAIIKernelFrames the program goes on and the count of every value is its
\* initial count plus the number of live frames, not moved from, that hold
\* it; it is the initial count again when all are destroyed.
C28_RefCountsBalanced ==
    /\ frame_status = "ok"
    /\ \A v \in DOMAIN refcounts : refcounts[v] = 1 + Cardinality(Holders(v))


\* The number p + n, p a pair of a high part and 16 low bits; the high part
\* is not cut to 16 bits.
PlusPair(p, n) ==
    <<p[1] + (p[2] + n) \div 65536, (p[2] + n) % 65536>>

\* The ids handed out are all different.
DistinctIds == \A j, k \in DOMAIN ids : j # k => ids[j] # ids[k]

\* C29 as the spec states it: the invocations get the ids 0, 1, 2, ... in
\* the order of their fetch_adds, so that after n invocations the ids are
\* 0..n-1.
C29_IdsCountInvocations ==
    \A j \in DOMAIN ids : ids[j] = PlusPair(served, j - 1)

\* C29 (as amended): for any interleaving the ids of different invocations
\* differ as long as fewer than 2^32 of them are compared, and the n-th
\* invocation (from 0) gets the id n modulo 2^32.
C29_IdsCountInvocationsModulo ==
    /\ DistinctIds
    /\ \A j \in DOMAIN ids :
         LET n == PlusPair(served, j - 1)
         IN  ids[j] = <<n[1] % 65536, n[2]>>
    /\ \A t \in DOMAIN log_threads :
         log_threads[t].part # "idle" =>
           \E j \in DOMAIN ids : ids[j] = log_threads[t].id

\* Two threads are in invocations at once, and log_counter_ has wrapped.
C29_Witness ==
    /\ Len(ids) = 3
    /\ ids[3] = <<0, 0>>
    /\ \A t \in DOMAIN log_threads : log_threads[t].part # "idle"

\* C30: at most one thread is inside the locked part of Print, and the two
\* halves of the contents of every Print call are next to each other in the
\* stream.
C30_MessagesContiguous ==
    /\ Cardinality({t \in DOMAIN log_threads : log_threads[t].step # 0}) <= 1
    /\ \A i \in DOMAIN metadata_ostream :
         LET c == metadata_ostream[i]
         IN  IF c.half = 1
             THEN i < Len(metadata_ostream) =>
                    metadata_ostream[i + 1] = [c EXCEPT !.half = 2]
             ELSE i > 1 /\ metadata_ostream[i - 1] = [c EXCEPT !.half = 1]

\* A thread has written half of a message while the other thread waits in
\* Print, after complete messages of both.
C30_Witness ==
    /\ \E t, u \in DOMAIN log_threads :
         /\ log_threads[t].step = 2
         /\ log_threads[u].step = 0
         /\ log_threads[u].part \in {"dispatch", "inputs", "outputs"}
    /\ \A t \in DOMAIN log_threads :
         \E i \in DOMAIN metadata_ostream :
           metadata_ostream[i].thread = t /\ metadata_ostream[i].half = 2


\* The function that is decoded has block arguments.
HasArguments == function_index[NextFunction].nargs > 0

\* The step keeps the region of the function that was decoded.
KeepsRegion == ReturnStep /\ Len(bodies') = Len(bodies) + 1

\* C23: with argument types the first entry of the kernel table is the
\* arguments pseudo kernel: it gives no operation and binds block argument i
\* to its i-th result register, and the kernels are read from the second
\* entry on; without argument types every entry is a kernel.  The block of a
\* decoded function holds kernel_table.size() - (n > 0 ? 1 : 0) operations
\* before the return.
C23_PseudoKernelIsFirstEntry ==
    [][/\ (pc = "ReadArgumentsPseudoKernel" /\ pc' = "ReadKernel")
            => /\ HasArguments
               /\ block' = <<>>
               /\ ki' = 2
               /\ Len(kernel'.results) = function_index[NextFunction].nargs
               /\ \A i \in 1..Len(kernel'.results) :
                    RegisterValue(register_table', beyond', kernel'.results[i])
                      = Arg(i)
       /\ (pc = "ReadFunctions" /\ pc' = "ReadKernel") => ~HasArguments /\ ki' = 1
       /\ KeepsRegion
            => Len(block) = num_kernels - (IF HasArguments THEN 1 ELSE 0)]_vars

\* The operand is the value that an argument or a kernel result gave to a
\* register of the table.
ProducedBy(t, r, v) == r <= Len(t) /\ t[r].value = v /\ v[1] \in {"arg", "res"}

\* C24: the body of every decoded function is the kernels' operations and
\* then one return operation, the last of the block, with one operand for
\* each result type of the function: operand i is the value produced for the
\* i-th result register.
C24_ReturnEndsBlock ==
    [][KeepsRegion
         => LET body == Last(bodies')
            IN  /\ Len(body) = Len(block) + 1
                /\ SubSeq(body, 1, Len(block)) = block
                /\ Last(body).name = "hex.return"
                /\ \A p \in 1..Len(block) : body[p].name # "hex.return"
                /\ Len(Last(body).operands) = function_index[NextFunction].nres
                /\ \A i \in 1..Len(result_regs) :
                     ProducedBy(register_table, result_regs[i],
                                Last(body).operands[i])]_vars


\* The BEF functions in front of function f of the function index.
FunctionsReadBefore(f) ==
    Cardinality({g \in 1..(f - 1) : ~function_index[g].native})

\* Array number k of the RegisterTypes section, counted from 1; no types when
\* the section has no such array.
TypeArray(k) == IF k \in 1..Len(register_types) THEN register_types[k] ELSE <<>>

\* C22, as stated: the register types given to the non-native function at
\* position i of the function index are the i-th array of the RegisterTypes
\* section, however many native functions precede it and whatever earlier
\* functions took from the stream.
C22_TypesAtFunctionIndex ==
    \A p \in function_reg_types : p[2] = TypeArray(p[1])

\* C22, as the code has it: the register types given to a non-native function
\* are the array of the RegisterTypes section whose number is the count of
\* non-native functions up to and including it; a native function takes
\* none, so the array depends on how many native functions precede it.
C22_TypesInStreamOrder ==
    \A p \in function_reg_types :
        p[2] = TypeArray(FunctionsReadBefore(p[1]) + 1)

\* A BEF function behind a native one got the array in front of its own.
C22_Witness ==
    \E p \in function_reg_types :
        /\ p[1] = 2
        /\ function_index[1].native
        /\ Len(register_types) = 2
        /\ register_types[2] # register_types[1]
        /\ p[2] = register_types[1]

RECURSIVE SumOf(_)
SumOf(s) == IF s = <<>> THEN 0 ELSE s[1] + SumOf(Tail(s))

\* Where the header of the kernel entry puts field k of entry_fields.
FieldStart(k) ==
    LET f == entry_fields[k].field
        u == Cardinality({j \in 1..(k - 1) : entry_fields[j].field = "used_by"})
    IN  CASE f = "arguments" -> 0
          [] f = "attributes" -> entry.num_arguments
          [] f = "functions" -> entry.num_arguments + entry.num_attributes
          [] f = "results" -> entry.num_arguments + entry.num_attributes
                              + entry.num_functions
          [] OTHER -> entry.num_arguments + entry.num_attributes
                      + entry.num_functions + Len(entry.used_bys)
                      + SumOf(SubSeq(entry.used_bys, 1, u))

FieldsInPlace ==
    /\ \A k \in DOMAIN entry_fields : entry_fields[k].from = FieldStart(k)
    /\ \A k \in 1..(Len(entry_fields) - 1) :
         entry_fields[k + 1].from = entry_fields[k].from + entry_fields[k].size
    /\ entry.complete =>
         entry_offset = entry.num_arguments + entry.num_attributes
                        + entry.num_functions + Len(entry.used_bys)
                        + SumOf(entry.used_bys)

\* C25: the fields read of a kernel entry are ranges of its body that follow
\* each other in the order arguments, attributes, functions, results and one
\* used-by range per result, each starting where the header puts it, and once
\* the entry is read entry_offset is num_arguments + num_attributes +
\* num_functions + num_results + the sum of the used-by counts.
C25_CursorPartitionsEntry == FieldsInPlace


\* Record k of the AttributeTypes section is of an offset-array and is the
\* record ReadAttributes kept for its offset, and every element it refers to
\* has a smaller offset and a record whose attribute could be read.
ArrayOfListed(k) ==
    LET recs == attribute_types.recs
    IN  /\ recs[k].attr = "array"
        /\ \A i \in 1..(k - 1) : recs[i].offset # recs[k].offset
        /\ \A j \in DOMAIN recs[k].elements :
             /\ recs[k].elements[j] < recs[k].offset
             /\ \E i \in DOMAIN recs : recs[i].offset = recs[k].elements[j]
             /\ attributes[recs[k].elements[j]] \notin {"absent", "null"}

\* A record in front of record k has the offset of element j of record k.
ListedBefore(k, j) ==
    \E i \in 1..(k - 1) :
        attribute_types.recs[i].offset = attribute_types.recs[k].elements[j]

====
